---- MODULE Spec2Model ----
(***************************************************************************)
(* Job execution engine of the log-processing worker                       *)
(* (packages/worker logProcessingWorker.ts, here src/unnamed/part_001).    *)
(*                                                                         *)
(* One execution of the BullMQ job handler is modelled together with the   *)
(* callbacks that run concurrently with it on the same event loop: the     *)
(* safety timer armed by setTimeout, the worker's "stalled" listener and   *)
(* the "completed"/"failed" listeners.  Every action is one synchronous    *)
(* segment of JavaScript: it starts where an awaited promise settles and   *)
(* runs up to the next await.                                              *)
(***************************************************************************)
EXTENDS Integers, Sequences, FiniteSets, TLC

(* ------------------------------ bounds -------------------------------- *)
\* number of lines in the downloaded file
MaxLines == 2
\* how many adverse events the environment injects in one run: a
\* durable-store update answering with an error, a redis publish rejecting,
\* the queue raising a "stalled" event for the job, or more than 5 s passing
\* between two checkpoints of the scan
MaxFaults == 1

(* ------------------------- program constants -------------------------- *)
maxRetries == 3
BATCH_SIZE == 1000
AvgLineBytes == 200
MinEstimatedLines == 100
BackoffBaseMs == 1000

(* ------------------------------ messages ------------------------------ *)
\* Strings are tuples of fragments so that a composed message
\* (`prefix: ${cause}`) stays comparable with a plain one.
NoError == << >>
TimeoutMsg == <<"Processing timeout after 3 minutes">>
StalledMsg == <<"Job stalled and was automatically failed">>
InvalidPathMsg == <<"Invalid file path">>
StorageErrorMsg == <<"Supabase storage error">>
EmptyDownloadMsg == <<"Downloaded file is empty (0 bytes)">>
StreamErrorMsg == <<"stream read error">>
SampleErrorMsg == <<"sample read error">>
DbErrorMsg == <<"database update error">>
ObjectString == <<"[object Object]">>
PublishErrorMsg == <<"redis publish error">>

DownloadFailedMsg(cause) ==
    <<"Failed to download file after 3 attempts">> \o cause

\* new Error(msg)
NewError(msg) == [isError |-> TRUE, message |-> msg]
\* the dbError object of a supabase response; whether it is an Error
\* instance depends on the client library version
DbError(isErr) == [isError |-> isErr, message |-> DbErrorMsg]
NoException == [isError |-> FALSE, message |-> NoError]

Terminal == {"completed", "failed"}
\* the handler and the checkpoint scanner keep of the accumulator only the
\* number of folded lines (scan.folded); its fields are followed in the
\* specification of the fold, and are absent elsewhere
NoStats == -1
\* no helper call is being followed
NoCall == [fn |-> "none"]

\* (process.env.MONITORED_KEYWORDS || "error,exception,fail,timeout")
\*     .split(",").map((k) => k.trim().toLowerCase())
DefaultKeywords == <<"error", "exception", "fail", "timeout">>

VARIABLES
    pc,          \* position of the job handler
    timer,       \* timeoutId / position of the safety-timer callback
    aborted,     \* the handler's closure variable `aborted`
    scanAborted, \* processLogFile's parameter `aborted`
    db,          \* the job's row in log_stats
    tempFile,    \* does the scratch file exist on disk
    file,        \* the job's input: locator, lines, byte size
    retries,     \* downloadFile's `retries`
    attempts,    \* errorMsg of each failed attempt of the running download
    scan,        \* processLogFile's locals
    exc,         \* the exception caught by the handler's catch block
    outcome,     \* what the handler returned or threw to the queue
    stalled,     \* position of the "stalled" listener
    budget,      \* number of events the environment may still inject
    log,         \* observable effects, in the order they take place
    keywords,    \* the module constant KEYWORDS
    stats,       \* processLogFile's accumulator `stats`
    call,        \* a call of a pure helper: its argument and return value
    execs,       \* the handler executions running side by side
    clock,       \* Date.now()
    provider,    \* WebSocketProvider's effect: socket, timers, intervals
    redis        \* the sorted set ratelimit:<identifier>

vars == <<pc, timer, aborted, scanAborted, db, tempFile, file, retries,
          attempts, scan, exc, outcome, stalled, budget, log, keywords,
          stats, call, execs, clock, provider, redis>>

\* no provider is mounted; the sorted set does not exist
NoProvider == [phase |-> "none"]
NoRedis == {}

(* ------------------------------ helpers ------------------------------- *)
Max(a, b) == IF a >= b THEN a ELSE b
Min(a, b) == IF a <= b THEN a ELSE b

\* outcomes the environment may still choose for a durable-store update
DbOutcomes == IF budget > 0 THEN BOOLEAN ELSE {TRUE}
\* outcomes the environment may still choose for a redis publish
PubOutcomes == IF budget > 0 THEN BOOLEAN ELSE {TRUE}

\* may the environment still let more than 5 s pass since the last checkpoint
SlowOutcomes == IF budget > 0 THEN BOOLEAN ELSE {FALSE}

Spend(b, dbOk, pubOk) ==
    b - (IF dbOk THEN 0 ELSE 1) - (IF pubOk THEN 0 ELSE 1)

\* updateData of updateJobStatus applied to the row: the error column is
\* part of the update only when the error argument is truthy
UpdateRow(row, status, progress, error) ==
    [row EXCEPT !.status = status,
                !.progress = progress,
                !.error = IF error # NoError THEN error ELSE @]

\* updateData of updateJobStats applied to the row: no error column
UpdateRowStats(row, status, progress, jobStats) ==
    [row EXCEPT !.status = status, !.progress = progress, !.stats = jobStats]

WriteEv(who, status, progress, error, jobStats, ok) ==
    [ev |-> "write", who |-> who, status |-> status, progress |-> progress,
     error |-> error, stats |-> jobStats, ok |-> ok]

PublishEvWithoutProgress(who, status, progress, error, ok) ==
    [ev |-> "publish", who |-> who, status |-> status,
     progress |-> -1, error |-> error, ok |-> ok]

\* publisher.publish("job-updates", JSON.stringify({jobId, status, progress,
\* error, timestamp}))
PublishEv(who, status, progress, error, ok) ==
    [ev |-> "publish", who |-> who, status |-> status,
     progress |-> progress, error |-> error, ok |-> ok]

\* only an Error gives a message
CatchErrorMessageOfErrors(e) == IF e.isError THEN e.message ELSE NoError

\* error instanceof Error ? error.message : String(error)
CatchErrorMessage(e) == IF e.isError THEN e.message ELSE ObjectString

\* Math.max(100, Math.floor(fileStats.size / 200))
EstimatedTotalLines(size) == Max(MinEstimatedLines, size \div AvgLineBytes)

\* the share of the estimate read, without the 20-100 range
CurrentProgressOfHundred(lineCount, est) == (lineCount * 100) \div est

\* Math.floor((lineCount / estimatedTotalLines) * 80) + 20
CurrentProgress(lineCount, est) == ((lineCount * 80) \div est) + 20

\* a clamp that lets a checkpoint reach 100
ScaledProgressUpTo100(p) == Min(100, Max(20, p))
\* a checkpoint percentage without the 20 points reserved for setup
ScaledProgressFromZero(p) == Min(99, Max(0, p - 20))
\* Math.min(99, Math.max(20, currentProgress))
ScaledProgress(p) == Min(99, Max(20, p))

\* 1000 * Math.pow(2, retries)
Pow2(n) == IF n = 0 THEN 1 ELSE IF n = 1 THEN 2 ELSE IF n = 2 THEN 4 ELSE 8
\* a backoff computed before the increment of `retries`
BackoffTimeBeforeIncrement(n) == BackoffBaseMs * Pow2(n - 1)
\* backoffTime, computed after retries++
BackoffTime(n) == BackoffBaseMs * Pow2(n)

\* does a rejected redis publish leave updateJobStatus / updateJobStats as
\* an exception?  without the try/catch around the publish it would
PublishRaisesUncaught(pubOk) == ~pubOk

\* try { await publisher.publish(...) } catch (pubError) { console.error }:
\* the rejection is logged and the function returns normally
PublishRaises(pubOk) == FALSE

\* the handler is suspended at an await, so other callbacks may run
Running == pc \notin {"idle", "returned", "thrown", "done"}

(* ------------------------------ locator ------------------------------ *)
\* job.data.filePath: a path, the empty string, a whitespace-only string,
\* undefined, or a value that is not a string (a number)
Locators == {"path", "empty", "blank", "undefined", "number"}
\* !filePath
Falsy(l) == l \in {"empty", "undefined"}
\* typeof filePath !== "string"
NotString(l) == l \in {"undefined", "number"}
\* filePath.trim() === ""
TrimIsEmpty(l) == l \in {"empty", "blank"}

\* a validation that forgets to trim
ValidLocatorUntrimmed(l) == ~(Falsy(l) \/ NotString(l))

\* downloadFile goes on when its validation does not throw
ValidLocator(l) == ~(Falsy(l) \/ NotString(l) \/ TrimIsEmpty(l))

(* ------------------------------- Init --------------------------------- *)
FileBytes == 400

Init ==
    /\ pc = "idle"
    /\ timer = "unset"
    /\ aborted = FALSE
    /\ scanAborted = FALSE
    /\ db = [status |-> "waiting", progress |-> 0, error |-> NoError,
             stats |-> NoStats]
    /\ tempFile = FALSE
    /\ file \in [locator : Locators, lines : {MaxLines}, size : {FileBytes}]
    /\ retries = 0
    /\ attempts = << >>
    /\ scan = [lineCount |-> 0, batchSize |-> 0, reportedProgress |-> 20,
               folded |-> 0, ckProgress |-> 0, timeUp |-> FALSE]
    /\ exc = NoException
    /\ outcome = [kind |-> "none", error |-> NoException, stats |-> NoStats]
    /\ stalled = "idle"
    /\ budget = MaxFaults
    /\ log = << >>
    /\ keywords = DefaultKeywords
    /\ stats = NoStats
    /\ call = NoCall
    /\ execs = << >>
    /\ clock = 0
    /\ provider = NoProvider
    /\ redis = NoRedis

(* --------------------------- the catch block -------------------------- *)
\* catch (error) { await cleanupJob("failed", 0, message) ... }: cleanupJob
\* clears the timer and calls updateJobStatus, which runs up to its awaited
\* supabase update.
EnterCatch(e) ==
    /\ exc' = e
    /\ timer' = IF timer = "armed" THEN "cleared" ELSE timer
    /\ pc' = "fail_db"

(* ----------------------------- job handler ---------------------------- *)
\* The handler is invoked: the timer is armed and updateJobStatus
\* ("processing", 1) is called; it suspends at the supabase update.
StartJob ==
    /\ pc = "idle"
    /\ timer' = "armed"
    /\ pc' = "st1_db"
    /\ UNCHANGED <<aborted, scanAborted, db, tempFile, file, retries,
                   attempts, scan, exc, outcome, stalled, budget, log,
                   keywords, stats, call, execs, clock, provider, redis>>

\* the two setup percentages exchanged
StatusProgressSwapped == IF pc = "st1_db" THEN 10
                         ELSE IF pc = "st10_db" THEN 1 ELSE scan.ckProgress
StatusProgress == IF pc = "st1_db" THEN 1
                  ELSE IF pc = "st10_db" THEN 10 ELSE scan.ckProgress
StatusWho == IF pc = "ck_db" THEN "scan" ELSE "handler"
StatusPubPc == IF pc = "st1_db" THEN "st1_pub"
               ELSE IF pc = "st10_db" THEN "st10_pub" ELSE "ck_pub"

\* updateJobStatus(jobId, "processing", p) called by the handler body or by
\* processLogFile: the supabase update answers.  On dbError the function
\* throws, which the caller does not catch before the handler's catch block;
\* otherwise the redis publish is issued and awaited.
HandlerStatusDb ==
    /\ pc \in {"st1_db", "st10_db", "ck_db"}
    /\ \E ok \in DbOutcomes, pubOk \in PubOutcomes, isErr \in BOOLEAN :
         IF ok
         THEN /\ db' = UpdateRow(db, "processing", StatusProgress, NoError)
              /\ log' = log \o
                   <<WriteEv(StatusWho, "processing", StatusProgress,
                             NoError, NoStats, TRUE),
                     PublishEv(StatusWho, "processing", StatusProgress,
                               NoError, pubOk)>>
              /\ budget' = Spend(budget, TRUE, pubOk)
              /\ IF PublishRaises(pubOk)
                 THEN EnterCatch(NewError(PublishErrorMsg))
                 ELSE /\ pc' = StatusPubPc
                      /\ UNCHANGED <<timer, exc>>
         ELSE /\ log' = log \o
                   <<WriteEv(StatusWho, "processing", StatusProgress,
                             NoError, NoStats, FALSE)>>
              /\ budget' = Spend(budget, FALSE, TRUE)
              /\ EnterCatch(DbError(isErr))
              /\ UNCHANGED db
    /\ UNCHANGED <<aborted, scanAborted, tempFile, file, retries, attempts,
                   scan, outcome, stalled,
                   keywords, stats, call, execs, clock, provider, redis>>

\* updateJobStatus("processing", 1) returned: downloadFile is called.  It
\* validates the locator and starts the first attempt.
AfterStatus1 ==
    /\ pc = "st1_pub"
    /\ IF ValidLocator(file.locator)
       THEN /\ pc' = "dl"
            /\ UNCHANGED <<timer, exc>>
       ELSE EnterCatch(NewError(InvalidPathMsg))
    /\ UNCHANGED <<aborted, scanAborted, db, tempFile, file, retries,
                   attempts, scan, outcome, stalled, budget, log,
                   keywords, stats, call, execs, clock, provider, redis>>

\* the error a failed attempt raises inside the loop's try block
AttemptError(result) ==
    IF result = "error" THEN StorageErrorMsg ELSE EmptyDownloadMsg

\* a zero-byte result that would not count toward the retry budget
RetriesAfterFailureSkipEmpty(r, errorMsg) ==
    IF errorMsg = EmptyDownloadMsg THEN r ELSE r + 1

\* catch (error) { ... retries++ }: every caught error counts
RetriesAfterFailure(r, errorMsg) == r + 1

\* giving up at the first failure
ExhaustedAtFirst(r) == r >= 1

\* if (retries >= maxRetries) throw
Exhausted(r) == r >= maxRetries

\* the cause of the first failed attempt
ReportedCauseFirst(causes) == causes[1]

\* the errorMsg the final error names: the one of the error just caught
ReportedCause(causes) == causes[Len(causes)]

\* One download attempt settles: the storage answers with data, with an
\* error, or with zero bytes.  Data is written to the scratch file and
\* the handler goes on to sampleFileContent; a failure counts a retry and
\* either throws (third failure) or starts the backoff wait.
DownloadAttempt ==
    /\ pc = "dl"
    /\ retries < maxRetries
    /\ \E result \in {"ok", "error", "empty"} :
         LET att == [ev |-> "attempt", n |-> Len(attempts) + 1,
                     ok |-> result = "ok"]
             causes == Append(attempts, AttemptError(result))
             r == RetriesAfterFailure(retries, AttemptError(result))
         IN IF result = "ok"
            THEN /\ tempFile' = TRUE
                 /\ attempts' = << >>
                 /\ log' = Append(log, att)
                 /\ pc' = "sample"
                 /\ UNCHANGED <<retries, timer, exc>>
            ELSE /\ retries' = r
                 /\ attempts' = causes
                 /\ UNCHANGED tempFile
                 /\ IF Exhausted(r)
                    THEN /\ log' = Append(log, att)
                         /\ EnterCatch(NewError(
                               DownloadFailedMsg(ReportedCause(causes))))
                    ELSE /\ log' = log \o
                              <<att, [ev |-> "wait", ms |-> BackoffTime(r)]>>
                         /\ pc' = "backoff"
                         /\ UNCHANGED <<timer, exc>>
    /\ UNCHANGED <<aborted, scanAborted, db, file, scan, outcome, stalled,
                   budget,
                   keywords, stats, call, execs, clock, provider, redis>>

\* the backoff setTimeout resolves and the loop starts the next attempt
BackoffDone ==
    /\ pc = "backoff"
    /\ pc' = "dl"
    /\ UNCHANGED <<timer, aborted, scanAborted, db, tempFile, file, retries,
                   attempts, scan, exc, outcome, stalled, budget, log,
                   keywords, stats, call, execs, clock, provider, redis>>

\* sampleFileContent settles; then job.updateProgress(10) and
\* updateJobStatus("processing", 10) are called.
AfterSample ==
    /\ pc = "sample"
    /\ \E ok \in BOOLEAN :
         IF ok
         THEN /\ pc' = "st10_db"
              /\ UNCHANGED <<timer, exc>>
         ELSE EnterCatch(NewError(SampleErrorMsg))
    /\ UNCHANGED <<aborted, scanAborted, db, tempFile, file, retries,
                   attempts, scan, outcome, stalled, budget, log,
                   keywords, stats, call, execs, clock, provider, redis>>

\* what processLogFile receives for its parameter `aborted` at the call
\* processLogFile(tempFilePath, job, aborted)
AbortedArgument(flag) == flag

\* updateJobStatus("processing", 10) returned: processLogFile is called
\* and suspends at the first line of the readline iterator.
StartScan ==
    /\ pc = "st10_pub"
    /\ scanAborted' = AbortedArgument(aborted)
    /\ scan' = [lineCount |-> 0, batchSize |-> 0, reportedProgress |-> 20,
                folded |-> 0, ckProgress |-> 0, timeUp |-> FALSE]
    /\ pc' = "scan"
    /\ UNCHANGED <<timer, aborted, db, tempFile, file, retries, attempts, exc,
                   outcome, stalled, budget, log,
                   keywords, stats, call, execs, clock, provider, redis>>

\* a checkpoint at every batch boundary
ShouldEmitAlways(cur, reported, timeUp) == TRUE

\* if (currentProgress >= reportedProgress + 5 ||
\*     now - lastProgressUpdate > 5000)
ShouldEmit(cur, reported, timeUp) == cur >= reported + 5 \/ timeUp

\* One pass of the loop body over a line that is not cut short by the
\* abort test: the line is counted and folded, then the checkpoint is
\* decided (a batch of BATCH_SIZE lines, or more than 5 s since the last
\* checkpoint: timeUp).  Gives processLogFile's locals after the pass and
\* whether a checkpoint is emitted; timeUp is kept as the outcome of the
\* clock test at the last line.
LineStep(sc, size, timeUp) ==
    LET n == sc.lineCount + 1
        batch == sc.batchSize + 1
        trigger == batch >= BATCH_SIZE \/ timeUp
        cur == CurrentProgress(n, EstimatedTotalLines(size))
        emit == trigger /\ ShouldEmit(cur, sc.reportedProgress, timeUp)
    IN [emit |-> emit,
        scan |-> [lineCount |-> n,
                  batchSize |-> IF trigger THEN 0 ELSE batch,
                  reportedProgress |->
                      IF emit THEN cur ELSE sc.reportedProgress,
                  folded |-> sc.folded + 1,
                  ckProgress |->
                      IF emit THEN ScaledProgress(cur) ELSE sc.ckProgress,
                  timeUp |-> timeUp]]

\* The readline iterator delivers the next line.  The loop first tests its
\* parameter `aborted`; otherwise it processes the line and either asks for
\* the next one or suspends in the checkpoint's updateJobStatus (the clock
\* is the environment's choice timeUp).  The memory-pressure pause only
\* suspends the loop and changes no state.
ScanLine ==
    /\ pc = "scan"
    /\ scan.lineCount < file.lines
    /\ IF scanAborted
       THEN /\ pc' = "final_db"
            /\ UNCHANGED <<scan, log, budget>>
       ELSE \E timeUp \in SlowOutcomes :
              LET step == LineStep(scan, file.size, timeUp)
              IN /\ scan' = step.scan
                 /\ log' = Append(log, [ev |-> "line",
                                        n |-> step.scan.lineCount])
                 /\ budget' = budget - (IF timeUp THEN 1 ELSE 0)
                 /\ pc' = IF step.emit THEN "ck_db" ELSE "scan"
    /\ UNCHANGED <<timer, aborted, scanAborted, db, tempFile, file, retries,
                   attempts, exc, outcome, stalled,
                   keywords, stats, call, execs, clock, provider, redis>>

\* the read stream raises an error inside the loop: processLogFile rethrows
ScanError ==
    /\ pc = "scan"
    /\ scan.lineCount < file.lines
    /\ EnterCatch(NewError(StreamErrorMsg))
    /\ UNCHANGED <<aborted, scanAborted, db, tempFile, file, retries,
                   attempts, scan, outcome, stalled, budget, log,
                   keywords, stats, call, execs, clock, provider, redis>>

\* updateJobStatus returned inside the checkpoint: publishJobUpdate is
\* started without await and the loop asks for the next line.
AfterCheckpoint ==
    /\ pc = "ck_pub"
    /\ \E pubOk \in PubOutcomes :
         /\ log' = Append(log, PublishEv("progress", "processing",
                                         scan.ckProgress, NoError, pubOk))
         /\ budget' = Spend(budget, TRUE, pubOk)
    /\ pc' = "scan"
    /\ UNCHANGED <<timer, aborted, scanAborted, db, tempFile, file, retries,
                   attempts, scan, exc, outcome, stalled,
                   keywords, stats, call, execs, clock, provider, redis>>

\* the iterator is exhausted: processLogFile returns its stats and the
\* handler calls updateJobStats(stats, "completed", 100)
ScanEnd ==
    /\ pc = "scan"
    /\ scan.lineCount = file.lines
    /\ pc' = "final_db"
    /\ UNCHANGED <<timer, aborted, scanAborted, db, tempFile, file, retries,
                   attempts, scan, exc, outcome, stalled, budget, log,
                   keywords, stats, call, execs, clock, provider, redis>>

\* updateJobStats: the supabase update answers; on error it throws into the
\* handler's catch block, otherwise the publish is issued and awaited
FinalDb ==
    /\ pc = "final_db"
    /\ \E ok \in DbOutcomes, pubOk \in PubOutcomes, isErr \in BOOLEAN :
         IF ok
         THEN /\ db' = UpdateRowStats(db, "completed", 100, scan.folded)
              /\ log' = log \o
                   <<WriteEv("final", "completed", 100, NoError,
                             scan.folded, TRUE),
                     PublishEv("final", "completed", 100, NoError, pubOk)>>
              /\ budget' = Spend(budget, TRUE, pubOk)
              /\ IF PublishRaises(pubOk)
                 THEN EnterCatch(NewError(PublishErrorMsg))
                 ELSE /\ pc' = "final_pub"
                      /\ UNCHANGED <<timer, exc>>
         ELSE /\ log' = log \o
                   <<WriteEv("final", "completed", 100, NoError,
                             scan.folded, FALSE)>>
              /\ budget' = Spend(budget, FALSE, TRUE)
              /\ EnterCatch(DbError(isErr))
              /\ UNCHANGED db
    /\ UNCHANGED <<aborted, scanAborted, tempFile, file, retries, attempts,
                   scan, outcome, stalled,
                   keywords, stats, call, execs, clock, provider, redis>>

\* updateJobStats returned: the scratch file is unlinked (an unlink error is
\* caught and logged), the timer is cleared and the handler returns
AfterFinal ==
    /\ pc = "final_pub"
    /\ \E unlinkOk \in BOOLEAN :
         tempFile' = IF unlinkOk THEN FALSE ELSE tempFile
    /\ timer' = IF timer = "armed" THEN "cleared" ELSE timer
    /\ outcome' = [kind |-> "returned", error |-> NoException,
                   stats |-> scan.folded]
    /\ pc' = "returned"
    /\ UNCHANGED <<aborted, scanAborted, db, file, retries, attempts, scan,
                   exc, stalled, budget, log,
                   keywords, stats, call, execs, clock, provider, redis>>

\* a cleanupJob without its try/catch: the failure of its own write
\* replaces the exception the handler caught
HandlerThrowsWriteError(caught, writeError) ==
    IF writeError # NoException THEN writeError ELSE caught

\* what the handler throws at the end of its catch block: cleanupJob
\* swallows a failure of its own write, then `throw error`
HandlerThrows(caught, writeError) == caught

\* cleanupJob's updateJobStatus("failed", 0, message): the supabase update
\* answers.  An error is swallowed by cleanupJob and the handler rethrows.
FailDb ==
    /\ pc = "fail_db"
    /\ \E ok \in DbOutcomes, pubOk \in PubOutcomes, isErr \in BOOLEAN :
         LET msg == CatchErrorMessage(exc)
         IN IF ok
            THEN /\ db' = UpdateRow(db, "failed", 0, msg)
                 /\ log' = log \o
                      <<WriteEv("cleanup", "failed", 0, msg, NoStats, TRUE),
                        PublishEv("cleanup", "failed", 0, msg, pubOk)>>
                 /\ budget' = Spend(budget, TRUE, pubOk)
                 /\ pc' = "fail_pub"
                 /\ UNCHANGED outcome
            ELSE /\ log' = log \o
                      <<WriteEv("cleanup", "failed", 0, msg, NoStats, FALSE)>>
                 /\ budget' = Spend(budget, FALSE, TRUE)
                 /\ outcome' = [kind |-> "thrown",
                                error |-> HandlerThrows(exc, DbError(isErr)),
                                stats |-> NoStats]
                 /\ pc' = "thrown"
                 /\ UNCHANGED db
    /\ UNCHANGED <<timer, aborted, scanAborted, tempFile, file, retries,
                   attempts, scan, exc, stalled,
                   keywords, stats, call, execs, clock, provider, redis>>

\* cleanupJob returned: throw error
AfterFail ==
    /\ pc = "fail_pub"
    /\ outcome' = [kind |-> "thrown",
                   error |-> HandlerThrows(exc, NoException),
                   stats |-> NoStats]
    /\ pc' = "thrown"
    /\ UNCHANGED <<timer, aborted, scanAborted, db, tempFile, file, retries,
                   attempts, scan, exc, stalled, budget, log,
                   keywords, stats, call, execs, clock, provider, redis>>

(* ------------------------- worker event listeners --------------------- *)
\* worker.on("completed"): publishJobUpdate({status: "completed", 100})
OnCompleted ==
    /\ pc = "returned"
    /\ \E pubOk \in PubOutcomes :
         /\ log' = Append(log, PublishEv("onCompleted", "completed", 100,
                                         NoError, pubOk))
         /\ budget' = Spend(budget, TRUE, pubOk)
    /\ pc' = "done"
    /\ UNCHANGED <<timer, aborted, scanAborted, db, tempFile, file, retries,
                   attempts, scan, exc, outcome, stalled,
                   keywords, stats, call, execs, clock, provider, redis>>

\* worker.on("failed"): publishJobUpdate({status: "failed", error.message})
OnFailed ==
    /\ pc = "thrown"
    /\ \E pubOk \in PubOutcomes :
         /\ log' = Append(log, PublishEv("onFailed", "failed", -1,
                                         outcome.error.message, pubOk))
         /\ budget' = Spend(budget, TRUE, pubOk)
    /\ pc' = "done"
    /\ UNCHANGED <<timer, aborted, scanAborted, db, tempFile, file, retries,
                   attempts, scan, exc, outcome, stalled,
                   keywords, stats, call, execs, clock, provider, redis>>

(* ----------------------------- safety timer --------------------------- *)
\* the setTimeout callback starts: aborted = true and updateJobStatus
\* ("failed", 0, timeout message) is called
TimerFire ==
    /\ timer = "armed"
    /\ Running
    /\ aborted' = TRUE
    /\ timer' = "db"
    /\ log' = Append(log, [ev |-> "timerFire", at |-> pc])
    /\ UNCHANGED <<pc, scanAborted, db, tempFile, file, retries, attempts,
                   scan, exc, outcome, stalled, budget,
                   keywords, stats, call, execs, clock, provider, redis>>

\* the callback's supabase update answers; an error is caught and logged,
\* otherwise the publish is issued; awaiting it is the callback's last step
\* and changes nothing
TimerDb ==
    /\ timer = "db"
    /\ \E ok \in DbOutcomes, pubOk \in PubOutcomes :
         IF ok
         THEN /\ db' = UpdateRow(db, "failed", 0, TimeoutMsg)
              /\ log' = log \o
                   <<WriteEv("timer", "failed", 0, TimeoutMsg, NoStats, TRUE),
                     PublishEv("timer", "failed", 0, TimeoutMsg, pubOk)>>
              /\ budget' = Spend(budget, TRUE, pubOk)
              /\ timer' = "done"
         ELSE /\ log' = log \o
                   <<WriteEv("timer", "failed", 0, TimeoutMsg, NoStats,
                             FALSE)>>
              /\ budget' = Spend(budget, FALSE, TRUE)
              /\ timer' = "done"
              /\ UNCHANGED db
    /\ UNCHANGED <<pc, aborted, scanAborted, tempFile, file, retries,
                   attempts, scan, exc, outcome, stalled,
                   keywords, stats, call, execs, clock, provider, redis>>

(* --------------------------- stalled listener ------------------------- *)
\* the queue reports the job as stalled: worker.on("stalled") calls
\* updateJobStatus("failed", 0, stalled message) without awaiting it
StalledEvent ==
    /\ stalled = "idle"
    /\ budget > 0
    /\ Running
    /\ stalled' = "db"
    /\ budget' = budget - 1
    /\ UNCHANGED <<pc, timer, aborted, scanAborted, db, tempFile, file,
                   retries, attempts, scan, exc, outcome, log,
                   keywords, stats, call, execs, clock, provider, redis>>

\* the listener's supabase update answers; an error goes to .catch,
\* otherwise the publish is issued and the listener only logs afterwards
StalledDb ==
    /\ stalled = "db"
    /\ \E ok \in DbOutcomes, pubOk \in PubOutcomes :
         IF ok
         THEN /\ db' = UpdateRow(db, "failed", 0, StalledMsg)
              /\ log' = log \o
                   <<WriteEv("stalled", "failed", 0, StalledMsg, NoStats,
                             TRUE),
                     PublishEv("stalled", "failed", 0, StalledMsg, pubOk)>>
              /\ budget' = Spend(budget, TRUE, pubOk)
              /\ stalled' = "idle"
         ELSE /\ log' = log \o
                   <<WriteEv("stalled", "failed", 0, StalledMsg, NoStats,
                             FALSE)>>
              /\ budget' = Spend(budget, FALSE, TRUE)
              /\ stalled' = "idle"
              /\ UNCHANGED db
    /\ UNCHANGED <<pc, timer, aborted, scanAborted, tempFile, file, retries,
                   attempts, scan, exc, outcome,
                   keywords, stats, call, execs, clock, provider, redis>>

(* ------------------------------ behaviour ----------------------------- *)
Next ==
    \/ StartJob
    \/ HandlerStatusDb
    \/ AfterStatus1
    \/ DownloadAttempt
    \/ BackoffDone
    \/ AfterSample
    \/ StartScan
    \/ ScanLine
    \/ ScanError
    \/ AfterCheckpoint
    \/ ScanEnd
    \/ FinalDb
    \/ AfterFinal
    \/ FailDb
    \/ AfterFail
    \/ OnCompleted
    \/ OnFailed
    \/ TimerFire
    \/ TimerDb
    \/ StalledEvent
    \/ StalledDb

Spec == Init /\ [][Next]_vars

(* -------------------------- the scanner alone ------------------------- *)
\* processLogFile on its own, from its first line to its return, with every
\* status write and publish of its checkpoints succeeding and no timer or
\* stalled event.  Files of SlowLines lines are read against an arbitrary
\* clock (any line may come more than 5 s after the last checkpoint);
\* files of FastLines lines are read without such a gap, so that only full
\* batches trigger checkpoints.  The log is not kept.
SlowLines == 130
FastLines == 10000

\* the largest line estimate under which the last full batch of a file of
\* that many lines computes a percentage of 99 or more
EdgeEstimate(lines) == (((lines \div BATCH_SIZE) * BATCH_SIZE) * 80) \div 79

\* byte sizes of a file of that many lines: 1 byte, 200 bytes and 400 bytes
\* per line, so that the line estimate is too low, exact and too high, and
\* the two sizes around the edge
ScanFileSizes(lines) ==
    {lines, AvgLineBytes * lines, 2 * AvgLineBytes * lines,
     AvgLineBytes * EdgeEstimate(lines),
     AvgLineBytes * (EdgeEstimate(lines) + 1)}

InitScan ==
    /\ pc = "scan"
    /\ timer = "armed"
    /\ aborted = FALSE
    /\ scanAborted = FALSE
    /\ db = [status |-> "processing", progress |-> 10, error |-> NoError,
             stats |-> NoStats]
    /\ tempFile = TRUE
    /\ \E lines \in {SlowLines, FastLines} :
          /\ file \in [locator : {"path"}, lines : {lines},
                        size : ScanFileSizes(lines)]
          /\ budget = IF lines = SlowLines THEN 1 ELSE 0
    /\ retries = 0
    /\ attempts = << >>
    /\ scan = [lineCount |-> 0, batchSize |-> 0, reportedProgress |-> 20,
               folded |-> 0, ckProgress |-> 0, timeUp |-> FALSE]
    /\ exc = NoException
    /\ outcome = [kind |-> "none", error |-> NoException, stats |-> NoStats]
    /\ stalled = "idle"
    /\ log = << >>
    /\ keywords = DefaultKeywords
    /\ stats = NoStats
    /\ call = NoCall
    /\ execs = << >>
    /\ clock = 0
    /\ provider = NoProvider
    /\ redis = NoRedis

\* the loop body runs over the next line; a gap of more than 5 s is the
\* environment's choice where the budget allows it
ScanOnlyLine ==
    /\ pc = "scan"
    /\ scan.lineCount < file.lines
    /\ \E timeUp \in (IF budget > 0 THEN BOOLEAN ELSE {FALSE}) :
         LET step == LineStep(scan, file.size, timeUp)
         IN /\ scan' = step.scan
            /\ pc' = IF step.emit THEN "ck_db" ELSE "scan"
    /\ UNCHANGED <<timer, aborted, scanAborted, db, tempFile, file, retries,
                   attempts, exc, outcome, stalled, budget, log,
                   keywords, stats, call, execs, clock, provider, redis>>

\* the checkpoint's updateJobStatus("processing", scaledProgress) and its
\* publishes settle; the loop asks for the next line
ScanOnlyCheckpoint ==
    /\ pc = "ck_db"
    /\ db' = UpdateRow(db, "processing", scan.ckProgress, NoError)
    /\ pc' = "scan"
    /\ UNCHANGED <<timer, aborted, scanAborted, tempFile, file, retries,
                   attempts, scan, exc, outcome, stalled, budget, log,
                   keywords, stats, call, execs, clock, provider, redis>>

\* the iterator is exhausted and processLogFile returns
ScanOnlyEnd ==
    /\ pc = "scan"
    /\ scan.lineCount = file.lines
    /\ pc' = "final_db"
    /\ UNCHANGED <<timer, aborted, scanAborted, db, tempFile, file, retries,
                   attempts, scan, exc, outcome, stalled, budget, log,
                   keywords, stats, call, execs, clock, provider, redis>>

NextScan ==
    \/ ScanOnlyLine
    \/ ScanOnlyCheckpoint
    \/ ScanOnlyEnd

SpecScan == InitScan /\ [][NextScan]_vars

(* ------------------------------ the fold ------------------------------ *)
\* processLogFile's accumulator over the lines of one file: parseLine gives
\* null or a record, and a record is folded into `stats`.
\*
\* A line is a sequence of tokens separated by single blanks:
\*   [kind |-> "stamp", text |-> t]          a bracketed timestamp, "[t]"
\*   [kind |-> "word", text |-> w]           a run of word characters
\*   [kind |-> "dotted", segs |-> s]         two or more runs of word
\*                                           characters joined by dots
\*   [kind |-> "json", ok |-> b, entries |-> e]   a run "{...}"; ok says
\*                                           whether JSON.parse accepts it
\*   [kind |-> "brace"]                      a run that begins with "{" and
\*                                           does not end with "}"
\* A string is represented by str.split("."): the sequence of its segments,
\* each a sequence of characters.  A JSON object is the sequence of its
\* values in Object.entries order: [type |-> "string", segs |-> s],
\* [type |-> "object", entries |-> e] or [type |-> "number"].
MaxFoldLines == 3

Stamp == [kind |-> "stamp", text |-> "t"]
StampOf(t) == [kind |-> "stamp", text |-> t]
Brace == [kind |-> "brace"]
Word(w) == [kind |-> "word", text |-> w]
Dotted(s) == [kind |-> "dotted", segs |-> s]
Json(e) == [kind |-> "json", ok |-> TRUE, entries |-> e]
BadJson == [kind |-> "json", ok |-> FALSE, entries |-> << >>]
StringValue(s) == [type |-> "string", segs |-> s]
ObjectValue(e) == [type |-> "object", entries |-> e]
NumberValue == [type |-> "number"]

Levels == {"ERROR", "Error", "INFO"}
\* toLowerCase() on the words of the lines below
ToLowerCase(level) ==
    IF level \in {"ERROR", "Error"} THEN "error"
    ELSE IF level = "INFO" THEN "info"
    ELSE IF level = "Timeout" THEN "timeout"
    ELSE level

(* ------------------------------ isIPAddress --------------------------- *)
Digits == {"0", "1", "2", "3", "4", "5", "6", "7", "8", "9"}
DigitValue(c) ==
    CASE c = "0" -> 0 [] c = "1" -> 1 [] c = "2" -> 2 [] c = "3" -> 3
      [] c = "4" -> 4 [] c = "5" -> 5 [] c = "6" -> 6 [] c = "7" -> 7
      [] c = "8" -> 8 [] c = "9" -> 9

\* the value of the digits of s from position i up to the first character
\* that is no digit
RECURSIVE LeadingDigits(_, _, _)
LeadingDigits(s, i, acc) ==
    IF i > Len(s) \/ s[i] \notin Digits THEN acc
    ELSE LeadingDigits(s, i + 1, acc * 10 + DigitValue(s[i]))

\* the first position of s that holds no white space
RECURSIVE SkipWhiteSpace(_, _)
SkipWhiteSpace(s, i) ==
    IF i <= Len(s) /\ s[i] = " " THEN SkipWhiteSpace(s, i + 1) ELSE i

\* parseInt(part, 10): leading white space is skipped, a sign is read, then
\* digits up to the first other character; NaN when no digit is read
ParseInt(s) ==
    LET i == SkipWhiteSpace(s, 1)
        signed == i <= Len(s) /\ s[i] \in {"-", "+"}
        j == IF signed THEN i + 1 ELSE i
    IN IF j > Len(s) \/ s[j] \notin Digits
       THEN [nan |-> TRUE, num |-> 0]
       ELSE [nan |-> FALSE,
             num |-> (IF signed /\ s[i] = "-" THEN -1 ELSE 1)
                     * LeadingDigits(s, j, 0)]

\* function isIPAddress(str): parts = str.split("."); four parts, each
\* with !isNaN(num) && num >= 0 && num <= 255
IsIPAddress(parts) ==
    /\ Len(parts) = 4
    /\ \A i \in DOMAIN parts :
          LET n == ParseInt(parts[i])
          IN ~n.nan /\ n.num >= 0 /\ n.num <= 255

\* isIPAddress alone: the argument is any string of up to MaxSegments
\* segments
MaxSegments == 5

\* the segments of the arguments: empty, in range, the largest in range,
\* out of range, digits followed by a letter, no digit
Segments ==
    {<< >>, <<"7">>, <<"2", "5", "5">>, <<"2", "5", "6">>, <<"1", "a">>,
     <<"a">>}

IpStrings ==
    UNION {[1..n -> Segments] : n \in 1..MaxSegments}

InitIp ==
    /\ pc = "idle"
    /\ timer = "unset"
    /\ aborted = FALSE
    /\ scanAborted = FALSE
    /\ db = [status |-> "waiting", progress |-> 0, error |-> NoError,
             stats |-> NoStats]
    /\ tempFile = FALSE
    /\ file = [locator |-> "path", lines |-> 0, size |-> 0]
    /\ retries = 0
    /\ attempts = << >>
    /\ scan = [lineCount |-> 0, batchSize |-> 0, reportedProgress |-> 20,
               folded |-> 0, ckProgress |-> 0, timeUp |-> FALSE]
    /\ exc = NoException
    /\ outcome = [kind |-> "none", error |-> NoException, stats |-> NoStats]
    /\ stalled = "idle"
    /\ budget = 0
    /\ log = << >>
    /\ keywords = DefaultKeywords
    /\ stats = NoStats
    /\ \E str \in IpStrings :
          call = [fn |-> "isIPAddress", arg |-> str, done |-> FALSE,
                  ret |-> FALSE]
    /\ execs = << >>
    /\ clock = 0
    /\ provider = NoProvider
    /\ redis = NoRedis

\* the call returns
CallIsIPAddress ==
    /\ call.fn = "isIPAddress"
    /\ ~call.done
    /\ call' = [call EXCEPT !.done = TRUE, !.ret = IsIPAddress(call.arg)]
    /\ UNCHANGED <<pc, timer, aborted, scanAborted, db, tempFile, file,
                   retries, attempts, scan, exc, outcome, stalled, budget,
                   log, keywords, stats, execs, clock, provider, redis>>

NextIp == CallIsIPAddress

SpecIp == InitIp /\ [][NextIp]_vars

(* ------------------------------ parseLine ----------------------------- *)
\* parseLine's null
NoRecord == [matched |-> FALSE]

\* the first position from i where "[...]" is followed by a blank, a word
\* and a blank, or 0: LOG_REGEX is not anchored at the start of the line
RECURSIVE EnvelopeAt(_, _)
EnvelopeAt(line, i) ==
    IF i + 2 > Len(line) THEN 0
    ELSE IF line[i].kind = "stamp" /\ line[i + 1].kind = "word" THEN i
    ELSE EnvelopeAt(line, i + 1)

\* the first position from k where " {" begins, or 0; the optional group
\* (?:\s+(\{.*\}))?$ needs the line to end with "}"
RECURSIVE PayloadAt(_, _)
PayloadAt(line, k) ==
    IF k > Len(line) \/ line[Len(line)].kind # "json" THEN 0
    ELSE IF line[k].kind \in {"json", "brace"} THEN k
    ELSE PayloadAt(line, k + 1)

\* try { JSON.parse(jsonStr) } catch { payload stays null }: jsonStr runs to
\* the end of the line, and is an object only if it is one well-formed token
JsonParse(line, k) ==
    IF k = Len(line) /\ line[k].kind = "json" /\ line[k].ok
    THEN [isNull |-> FALSE, entries |-> line[k].entries]
    ELSE [isNull |-> TRUE, entries |-> << >>]

\* function parseLine(line): the message is what follows the level, up to a
\* payload that is preceded by a blank of its own
ParseLine(line) ==
    LET i == EnvelopeAt(line, 1)
        k == IF i = 0 THEN 0 ELSE PayloadAt(line, i + 3)
    IN IF i = 0 THEN NoRecord
       ELSE [matched |-> TRUE,
             timestamp |-> line[i].text,
             level |-> line[i + 1].text,
             message |-> IF k = 0 THEN SubSeq(line, i + 2, Len(line))
                         ELSE SubSeq(line, i + 2, k - 1),
             jsonPayload |-> IF k = 0
                             THEN [isNull |-> TRUE, entries |-> << >>]
                             ELSE JsonParse(line, k)]

\* parseLine alone: the argument is any line "[T] LEVEL message {json}"
\* with a message of up to MaxMessageTokens tokens
MaxMessageTokens == 2

\* what a message is made of: a word, an address, a run "{bob}", a run
\* "{bob"
MessageTokens == {Word("user"), Dotted(<<<<"1">>, <<"2">>>>), BadJson, Brace}

\* the lines: a message of 1..MaxMessageTokens tokens and a trailing
\* payload, well-formed or malformed
GrammarLines ==
    {<<StampOf(t), Word(level)>> \o message \o <<payload>> :
        t \in {"t", "u"}, level \in {"ERROR", "INFO"},
        message \in UNION {[1..n -> MessageTokens] :
                              n \in 1..MaxMessageTokens},
        payload \in {Json(<<StringValue(<<<<"a">>>>)>>), BadJson}}

InitParse ==
    /\ pc = "idle"
    /\ timer = "unset"
    /\ aborted = FALSE
    /\ scanAborted = FALSE
    /\ db = [status |-> "waiting", progress |-> 0, error |-> NoError,
             stats |-> NoStats]
    /\ tempFile = FALSE
    /\ file = [locator |-> "path", lines |-> 0, size |-> 0]
    /\ retries = 0
    /\ attempts = << >>
    /\ scan = [lineCount |-> 0, batchSize |-> 0, reportedProgress |-> 20,
               folded |-> 0, ckProgress |-> 0, timeUp |-> FALSE]
    /\ exc = NoException
    /\ outcome = [kind |-> "none", error |-> NoException, stats |-> NoStats]
    /\ stalled = "idle"
    /\ budget = 0
    /\ log = << >>
    /\ keywords = DefaultKeywords
    /\ stats = NoStats
    /\ \E line \in GrammarLines :
          call = [fn |-> "parseLine", arg |-> line, done |-> FALSE,
                  ret |-> NoRecord]
    /\ execs = << >>
    /\ clock = 0
    /\ provider = NoProvider
    /\ redis = NoRedis

\* the call returns
CallParseLine ==
    /\ call.fn = "parseLine"
    /\ ~call.done
    /\ call' = [call EXCEPT !.done = TRUE, !.ret = ParseLine(call.arg)]
    /\ UNCHANGED <<pc, timer, aborted, scanAborted, db, tempFile, file,
                   retries, attempts, scan, exc, outcome, stalled, budget,
                   log, keywords, stats, execs, clock, provider, redis>>

NextParse == CallParseLine

SpecParse == InitParse /\ [][NextParse]_vars

(* ------------------------------ the lines ----------------------------- *)
IpX == << <<"1", "0">>, <<"0">>, <<"0">>, <<"7">> >>
IpOutOfRange == << <<"2", "5", "6">>, <<"1">>, <<"1">>, <<"1">> >>
IpLeadingDigit == << <<"1", "a">>, <<"2">>, <<"3">>, <<"4">> >>

\* "[t] ERROR something timeout happened"
ScenarioLine ==
    <<Stamp, Word("ERROR"), Word("something"), Word("timeout"),
      Word("happened")>>

\* the lines a file is made of
RawLines ==
    {ScenarioLine,
     \* [t] INFO error from 10.0.0.7 {"ip":"10.0.0.7"}
     <<Stamp, Word("INFO"), Word("error"), Word("from"), Dotted(IpX),
       Json(<<StringValue(IpX)>>)>>,
     \* [t] INFO from 10.0.0.7
     <<Stamp, Word("INFO"), Word("from"), Dotted(IpX)>>,
     \* [t] Error Timeout {"n":5,"client":{"ip":"10.0.0.7"}}
     <<Stamp, Word("Error"), Word("Timeout"),
       Json(<<NumberValue, ObjectValue(<<StringValue(IpX)>>)>>)>>,
     \* [t] INFO {"ip":"10.0.0.7"}
     <<Stamp, Word("INFO"), Json(<<StringValue(IpX)>>)>>,
     \* [t] INFO from 256.1.1.1 {"ip":"1a.2.3.4"}
     <<Stamp, Word("INFO"), Word("from"), Dotted(IpOutOfRange),
       Json(<<StringValue(IpLeadingDigit)>>)>>,
     \* [t] INFO fail {"ip":"10.0.0.7"
     <<Stamp, Word("INFO"), Word("fail"), BadJson>>,
     \* something happened
     <<Word("something"), Word("happened")>>}

(* ------------------------------ keywords ------------------------------ *)
\* the monitored words that are substrings of message.toLowerCase(): the
\* words of the lines above hold no other word as a part
Contains(message) ==
    {ToLowerCase(message[i].text) :
        i \in {j \in DOMAIN message : message[j].kind = "word"}}

\* parsed.message.toLowerCase().includes(keyword); the empty keyword is a
\* substring of every message
Includes(contains, keyword) == keyword = "" \/ keyword \in contains

\* values KEYWORDS takes for different MONITORED_KEYWORDS: unset, two
\* words, a repeated word, a trailing comma
KeywordLists ==
    {DefaultKeywords, <<"error", "timeout">>, <<"timeout", "timeout">>,
     <<"error", "">>}

\* keys created only when a keyword first matches
NewKeywordMatchesLazy(kws) == [k \in {} |-> 0]

\* KEYWORDS.forEach((keyword) => { stats.keywordMatches[keyword] = 0 })
NewKeywordMatches(kws) == [k \in {kws[i] : i \in DOMAIN kws} |-> 0]

\* const stats = { totalEntries: 0, errorCount: 0, keywordMatches: {},
\*                 ipAddresses: {}, processingTime: 0 }
NewStats(kws) ==
    [totalEntries |-> 0, errorCount |-> 0,
     keywordMatches |-> NewKeywordMatches(kws),
     ipAddresses |-> << >>]

\* KEYWORDS.forEach((keyword) => { if (includes) keywordMatches[keyword]++ })
\* from the i-th keyword on
RECURSIVE CountKeywords(_, _, _, _)
CountKeywords(km, kws, i, contains) ==
    IF i > Len(kws) THEN km
    ELSE CountKeywords(IF Includes(contains, kws[i])
                       THEN [km EXCEPT ![kws[i]] = @ + 1]
                       ELSE km,
                       kws, i + 1, contains)

(* ------------------------------ addresses ----------------------------- *)
\* an address already present keeps its count
CountIPOnce(ips, value) ==
    IF value \in DOMAIN ips THEN ips ELSE ips @@ (value :> 1)

\* stats.ipAddresses[value] = (stats.ipAddresses[value] || 0) + 1
CountIP(ips, value) ==
    IF value \in DOMAIN ips THEN [ips EXCEPT ![value] = @ + 1]
    ELSE ips @@ (value :> 1)

\* function extractIPs(obj, stats): string values that pass isIPAddress are
\* counted, objects are walked
RECURSIVE ExtractIPs(_, _)
ExtractIPs(entries, ips) ==
    IF entries = << >> THEN ips
    ELSE LET value == Head(entries)
             after == IF value.type = "string"
                      THEN IF IsIPAddress(value.segs)
                           THEN CountIP(ips, value.segs) ELSE ips
                      ELSE IF value.type = "object"
                      THEN ExtractIPs(value.entries, ips)
                      ELSE ips
         IN ExtractIPs(Tail(entries), after)

\* \d{1,3}
ShortDigits(seg) ==
    Len(seg) \in 1..3 /\ \A i \in DOMAIN seg : seg[i] \in Digits

\* text.match(/\b\d{1,3}\.\d{1,3}\.\d{1,3}\.\d{1,3}\b/g) on a string of
\* word characters and dots, from its i-th segment on: matches are found
\* from the left and do not overlap
RECURSIVE Ipv4Matches(_, _)
Ipv4Matches(segs, i) ==
    IF i + 3 > Len(segs) THEN << >>
    ELSE IF \A j \in i..(i + 3) : ShortDigits(segs[j])
    THEN <<SubSeq(segs, i, i + 3)>> \o Ipv4Matches(segs, i + 4)
    ELSE Ipv4Matches(segs, i + 1)

\* the strings of a "{...}" run that stands in the message, in order
RECURSIVE JsonStrings(_)
JsonStrings(entries) ==
    IF entries = << >> THEN << >>
    ELSE LET value == Head(entries)
         IN (IF value.type = "string" THEN <<value.segs>>
             ELSE IF value.type = "object" THEN JsonStrings(value.entries)
             ELSE << >>) \o JsonStrings(Tail(entries))

\* the matches of the expression in one token
RECURSIVE StringsMatches(_)
StringsMatches(strings) ==
    IF strings = << >> THEN << >>
    ELSE Ipv4Matches(Head(strings), 1) \o StringsMatches(Tail(strings))

TokenMatches(token) ==
    IF token.kind = "dotted" THEN Ipv4Matches(token.segs, 1)
    ELSE IF token.kind = "json" THEN StringsMatches(JsonStrings(token.entries))
    ELSE << >>

\* matches.forEach((ip) => { if (isIPAddress(ip)) ... })
RECURSIVE CountMatches(_, _)
CountMatches(matches, ips) ==
    IF matches = << >> THEN ips
    ELSE CountMatches(Tail(matches),
                      IF IsIPAddress(Head(matches))
                      THEN CountIP(ips, Head(matches)) ELSE ips)

\* function extractIPsFromText(text, stats)
RECURSIVE ExtractIPsFromText(_, _)
ExtractIPsFromText(message, ips) ==
    IF message = << >> THEN ips
    ELSE ExtractIPsFromText(Tail(message),
                            CountMatches(TokenMatches(Head(message)), ips))

\* the keywords looked for in the level as well
KeywordTextWithLevel(parsed) == <<Word(parsed.level)>> \o parsed.message

\* the text the keywords are looked for in: parsed.message
KeywordText(parsed) == parsed.message

\* the count left as it is
TotalEntriesKept(n) == n

\* stats.totalEntries++
TotalEntriesIncremented(n) == n + 1

\* if (parsed) { stats.totalEntries++; ... }
Fold(st, parsed, kws) ==
    [totalEntries |-> TotalEntriesIncremented(st.totalEntries),
     errorCount |-> st.errorCount
                    + (IF ToLowerCase(parsed.level) = "error" THEN 1 ELSE 0),
     keywordMatches |-> CountKeywords(st.keywordMatches, kws, 1,
                                      Contains(KeywordText(parsed))),
     ipAddresses |->
        ExtractIPsFromText(parsed.message,
            IF parsed.jsonPayload.isNull THEN st.ipAddresses
            ELSE ExtractIPs(parsed.jsonPayload.entries, st.ipAddresses))]

InitFold ==
    /\ pc = "scan"
    /\ timer = "armed"
    /\ aborted = FALSE
    /\ scanAborted = FALSE
    /\ db = [status |-> "processing", progress |-> 10, error |-> NoError,
             stats |-> NoStats]
    /\ tempFile = TRUE
    /\ file = [locator |-> "path", lines |-> MaxFoldLines, size |-> FileBytes]
    /\ retries = 0
    /\ attempts = << >>
    /\ scan = [lineCount |-> 0, batchSize |-> 0, reportedProgress |-> 20,
               folded |-> 0, ckProgress |-> 0, timeUp |-> FALSE]
    /\ exc = NoException
    /\ outcome = [kind |-> "none", error |-> NoException, stats |-> NoStats]
    /\ stalled = "idle"
    /\ budget = 0
    /\ log = << >>
    /\ keywords \in KeywordLists
    /\ stats = NewStats(keywords)
    /\ call = NoCall
    /\ execs = << >>
    /\ clock = 0
    /\ provider = NoProvider
    /\ redis = NoRedis

\* the next line parses to a record, which is folded
FoldLine ==
    /\ pc = "scan"
    /\ scan.lineCount < file.lines
    /\ \E line \in RawLines :
         LET parsed == ParseLine(line)
         IN /\ parsed.matched
            /\ call' = [fn |-> "parseLine", arg |-> line, ret |-> parsed]
            /\ stats' = Fold(stats, parsed, keywords)
    /\ scan' = LineStep(scan, file.size, FALSE).scan
    /\ UNCHANGED <<pc, timer, aborted, scanAborted, db, tempFile, file,
                   retries, attempts, exc, outcome, stalled, budget, log,
                   keywords, execs, clock, provider, redis>>

\* parseLine returns null for the next line: the line is only counted
SkipLine ==
    /\ pc = "scan"
    /\ scan.lineCount < file.lines
    /\ \E line \in RawLines :
         LET parsed == ParseLine(line)
         IN /\ ~parsed.matched
            /\ call' = [fn |-> "parseLine", arg |-> line, ret |-> parsed]
    /\ scan' = [LineStep(scan, file.size, FALSE).scan
                   EXCEPT !.folded = scan.folded]
    /\ UNCHANGED <<pc, timer, aborted, scanAborted, db, tempFile, file,
                   retries, attempts, exc, outcome, stalled, budget, log,
                   keywords, stats, execs, clock, provider, redis>>

NextFold ==
    \/ FoldLine
    \/ SkipLine

SpecFold == InitFold /\ [][NextFold]_vars

(* ---------------------- handlers side by side ------------------------- *)
\* The worker runs up to CONCURRENCY handlers in one process; they
\* interleave at their awaits.  Each execution is followed through
\* downloadFile's write of the scratch file and through processLogFile's
\* loop.  The queue gives the executions that run at the same time
\* different jobs.
MaxExecs == 2
MaxClock == 1

\* the ids the enqueue route makes: `job-${Date.now()}-${random}`, as the
\* sequence of their parts between dashes, in the order in which the jobs
\* are taken from the queue
JobIds ==
    <<<<"job", "1", "a">>, <<"job", "1", "b">>, <<"job", "2", "a">>,
      <<"job", "2", "b">>>>

\* the inputs: path.basename(filePath), where the upload names the object
\* `${userId}/${Date.now()}-${file.name}`, and the lines of the file
JobInputs ==
    {[base |-> <<"1", "app.log">>,
      lines |-> <<ScenarioLine, <<Word("something"), Word("happened")>>>>],
     [base |-> <<"2", "app.log">>,
      lines |-> <<<<Stamp, Word("Error"), Word("Timeout"),
                    Json(<<StringValue(IpX)>>)>>>>]}

\* a name without the job id
TempFilePathWithoutId(jobId, now, base) == <<"job", ToString(now)>> \o base

\* `job-${jobId}-${Date.now()}-${path.basename(filePath)}`
TempFilePath(jobId, now, base) ==
    <<"job">> \o jobId \o <<ToString(now)>> \o base

\* one accumulator for the module
StatsOwnerShared(j) == 1

\* const stats = {...} inside processLogFile: each call has its own
StatsOwner(j) == j

InitJobs ==
    /\ pc = "idle"
    /\ timer = "unset"
    /\ aborted = FALSE
    /\ scanAborted = FALSE
    /\ db = [status |-> "waiting", progress |-> 0, error |-> NoError,
             stats |-> NoStats]
    /\ tempFile = FALSE
    /\ file = [locator |-> "path", lines |-> 0, size |-> 0]
    /\ retries = 0
    /\ attempts = << >>
    /\ scan = [lineCount |-> 0, batchSize |-> 0, reportedProgress |-> 20,
               folded |-> 0, ckProgress |-> 0, timeUp |-> FALSE]
    /\ exc = NoException
    /\ outcome = [kind |-> "none", error |-> NoException, stats |-> NoStats]
    /\ stalled = "idle"
    /\ budget = 1
    /\ log = << >>
    /\ keywords = DefaultKeywords
    /\ stats = [j \in 1..MaxExecs |-> NewStats(keywords)]
    /\ call = NoCall
    /\ \E inputs \in [1..MaxExecs -> JobInputs] :
            execs = [j \in 1..MaxExecs |->
                        [job |-> [id |-> JobIds[j], input |-> inputs[j]],
                         pc |-> "download",
                         written |-> {}, tempFilePath |-> << >>,
                         lineCount |-> 0, notified |-> FALSE,
                         returned |-> FALSE, result |-> NewStats(keywords)]]
    /\ clock = 0
    /\ provider = NoProvider
    /\ redis = NoRedis

\* downloadFile: the data has arrived; the scratch file is named after
\* Date.now(), which has not gone back since it was last read, and written.
\* A zero-byte file, which the storage delivers at most once here, leaves
\* the loop for another attempt; otherwise the handler goes on to
\* processLogFile, which makes its accumulator.
ExecDownload(j) ==
    /\ execs[j].pc = "download"
    /\ \E empty \in (IF budget > 0 THEN BOOLEAN ELSE {FALSE}),
          now \in clock..MaxClock :
         LET path == TempFilePath(execs[j].job.id, now,
                                  execs[j].job.input.base)
         IN /\ budget' = budget - (IF empty THEN 1 ELSE 0)
            /\ clock' = now
            /\ execs' = [execs EXCEPT
                            ![j].written = @ \cup {path},
                            ![j].tempFilePath = path,
                            ![j].pc = IF empty THEN "download" ELSE "scan"]
            /\ stats' = IF empty THEN stats
                        ELSE [stats EXCEPT
                                 ![StatsOwner(j)] = NewStats(keywords)]
    /\ UNCHANGED <<pc, timer, aborted, scanAborted, db, tempFile, file,
                   retries, attempts, scan, exc, outcome, stalled, log,
                   keywords, call, provider, redis>>

\* processLogFile's loop body over the next line of the execution's file
ExecLine(j) ==
    /\ execs[j].pc = "scan"
    /\ execs[j].lineCount < Len(execs[j].job.input.lines)
    /\ LET parsed == ParseLine(execs[j].job.input.lines[execs[j].lineCount + 1])
       IN stats' = IF parsed.matched
                   THEN [stats EXCEPT ![StatsOwner(j)] =
                                         Fold(@, parsed, keywords)]
                   ELSE stats
    /\ execs' = [execs EXCEPT ![j].lineCount = @ + 1,
                              ![j].notified = FALSE]
    /\ UNCHANGED <<pc, timer, aborted, scanAborted, db, tempFile, file,
                   retries, attempts, scan, exc, outcome, stalled, budget,
                   log, keywords, call, clock, provider, redis>>

\* a checkpoint of the execution: updateJobStatus and publishJobUpdate are
\* given the job id, the status and the percentage
ExecCheckpoint(j) ==
    /\ execs[j].pc = "scan"
    /\ execs[j].lineCount > 0
    /\ ~execs[j].notified
    /\ execs' = [execs EXCEPT ![j].notified = TRUE]
    /\ UNCHANGED <<pc, timer, aborted, scanAborted, db, tempFile, file,
                   retries, attempts, scan, exc, outcome, stalled, budget,
                   log, keywords, stats, call, clock, provider, redis>>

\* the stream has ended: processLogFile returns its accumulator
ExecEnd(j) ==
    /\ execs[j].pc = "scan"
    /\ execs[j].lineCount = Len(execs[j].job.input.lines)
    /\ execs' = [execs EXCEPT ![j].pc = "done", ![j].returned = TRUE,
                              ![j].result = stats[StatsOwner(j)]]
    /\ UNCHANGED <<pc, timer, aborted, scanAborted, db, tempFile, file,
                   retries, attempts, scan, exc, outcome, stalled, budget,
                   log, keywords, stats, call, clock, provider, redis>>

NextJobs ==
    \/ \E j \in DOMAIN execs : ExecDownload(j)
    \/ \E j \in DOMAIN execs : ExecLine(j)
    \/ \E j \in DOMAIN execs : ExecCheckpoint(j)
    \/ \E j \in DOMAIN execs : ExecEnd(j)

SpecJobs == InitJobs /\ [][NextJobs]_vars

(* ------------------------- WebSocketProvider -------------------------- *)
\* The provider's effect runs once (dependency list []), so connectWebSocket,
\* startPolling, the socket's handlers and the cleanup all read the
\* pollingIntervalId of the render in which the effect ran.  provider is
\*   phase               rendered, mounted (effect ran) or unmounted
\*   ws                  none, connecting, open, closing or closed
\*   reconnectAttempts   the effect's local counter
\*   reconnectTimeout    unset, armed, fired or cleared
\*   intervals           the ids of the intervals that are running
\*   nextId              the id the next setInterval returns
\*   pollingIntervalId   the React state (0 is null)
\*   seenId              the pollingIntervalId the effect's closures read
\*   isConnected, useFallbackPolling   the React states

\* polling intervals the provider may start in one behaviour
MaxIntervals == 5

maxReconnectAttempts == 5

Rendered ==
    [phase |-> "rendered", ws |-> "none", reconnectAttempts |-> 0,
     reconnectTimeout |-> "unset", intervals |-> {}, nextId |-> 1,
     pollingIntervalId |-> 0, seenId |-> 0, isConnected |-> FALSE,
     useFallbackPolling |-> FALSE]

\* if (pollingIntervalId) clearInterval(pollingIntervalId)
ClearSeen(p) ==
    IF p.seenId # 0 THEN p.intervals \ {p.seenId} ELSE p.intervals

\* startPolling
StartPolling(p) ==
    [p EXCEPT !.useFallbackPolling = TRUE,
              !.intervals = ClearSeen(p) \cup {p.nextId},
              !.nextId = p.nextId + 1,
              !.pollingIntervalId = p.nextId]

\* connectWebSocket; created says whether new WebSocket(...) returned
ConnectWebSocket(p, created) ==
    IF p.reconnectAttempts >= maxReconnectAttempts THEN StartPolling(p)
    ELSE IF created THEN [p EXCEPT !.ws = "connecting"]
    ELSE StartPolling(p)

InitWs ==
    /\ pc = "idle"
    /\ timer = "unset"
    /\ aborted = FALSE
    /\ scanAborted = FALSE
    /\ db = [status |-> "waiting", progress |-> 0, error |-> NoError,
             stats |-> NoStats]
    /\ tempFile = FALSE
    /\ file = [locator |-> "path", lines |-> 0, size |-> 0]
    /\ retries = 0
    /\ attempts = << >>
    /\ scan = [lineCount |-> 0, batchSize |-> 0, reportedProgress |-> 20,
               folded |-> 0, ckProgress |-> 0, timeUp |-> FALSE]
    /\ exc = NoException
    /\ outcome = [kind |-> "none", error |-> NoException, stats |-> NoStats]
    /\ stalled = "idle"
    /\ budget = 0
    /\ log = << >>
    /\ keywords = DefaultKeywords
    /\ stats = NoStats
    /\ call = NoCall
    /\ execs = << >>
    /\ clock = 0
    /\ provider = Rendered
    /\ redis = NoRedis

WsUnchanged ==
    UNCHANGED <<pc, timer, aborted, scanAborted, db, tempFile, file,
                retries, attempts, scan, exc, outcome, stalled, budget,
                log, keywords, stats, call, execs, clock, redis>>

\* the effect runs after the first render: connectWebSocket()
EffectRun ==
    /\ provider.phase = "rendered"
    /\ \E created \in BOOLEAN :
         provider' = ConnectWebSocket(
                        [provider EXCEPT !.phase = "mounted",
                                         !.seenId = provider.pollingIntervalId],
                        created)
    /\ WsUnchanged

\* ws.onopen
OnOpen ==
    /\ provider.ws = "connecting"
    /\ provider' = [provider EXCEPT
                       !.ws = "open",
                       !.isConnected = TRUE,
                       !.reconnectAttempts = 0,
                       !.useFallbackPolling = FALSE,
                       !.intervals = ClearSeen(provider),
                       !.pollingIntervalId =
                           IF provider.seenId # 0 THEN 0 ELSE @]
    /\ WsUnchanged

\* ws.onerror: ws.close()
OnError ==
    /\ provider.ws \in {"connecting", "open"}
    /\ provider' = [provider EXCEPT !.ws = "closing"]
    /\ WsUnchanged

\* ws.onclose: the reconnect is scheduled, and from the second attempt on
\* startPolling() is called
OnClose ==
    /\ provider.ws \in {"connecting", "open", "closing"}
    /\ provider.nextId <= MaxIntervals
    /\ LET p == [provider EXCEPT
                    !.ws = "closed",
                    !.isConnected = FALSE,
                    !.reconnectAttempts = @ + 1,
                    !.reconnectTimeout = "armed"]
       IN provider' = IF p.reconnectAttempts >= 2 THEN StartPolling(p) ELSE p
    /\ WsUnchanged

\* the reconnect timeout fires: connectWebSocket()
ReconnectFire ==
    /\ provider.reconnectTimeout = "armed"
    /\ provider.nextId <= MaxIntervals
    /\ \E created \in BOOLEAN :
         provider' = ConnectWebSocket(
                        [provider EXCEPT !.reconnectTimeout = "fired"],
                        created)
    /\ WsUnchanged

\* the effect's cleanup: ws.close(), clearTimeout, clearInterval
Unmount ==
    /\ provider.phase = "mounted"
    /\ provider' = [provider EXCEPT
                       !.phase = "unmounted",
                       !.ws = IF @ \in {"connecting", "open"}
                              THEN "closing" ELSE @,
                       !.reconnectTimeout = IF @ = "armed"
                                            THEN "cleared" ELSE @,
                       !.intervals = ClearSeen(provider)]
    /\ WsUnchanged

NextWs ==
    \/ EffectRun
    \/ OnOpen
    \/ OnError
    \/ OnClose
    \/ ReconnectFire
    \/ Unmount

SpecWs == InitWs /\ [][NextWs]_vars

(* ---------------------------- safeRateLimit --------------------------- *)
\* Calls of safeRateLimit for one identifier, each on its own redis client,
\* so the commands of different calls reach the server in any order.  execs
\* holds the calls, redis the members of the sorted set with their scores,
\* and clock the time in ticks of 1/TicksPerSec second.

\* calls of safeRateLimit in one behaviour
MaxCalls == 2

\* the last tick of the clock
MaxTicks == 3

\* clock ticks in a second
TicksPerSec == 2

IdleCall(limit, windowSec) ==
    [pc |-> "idle", limit |-> limit, windowSec |-> windowSec, tick |-> 0,
     now |-> 0, requestCount |-> 0, ret |-> [done |-> FALSE]]

\* Math.floor(Date.now() / 1000)
NowSeconds(ticks) == ticks \div TicksPerSec

\* zremrangebyscore(key, 0, windowStart): the members that stay
ZRemRangeByScore(zset, windowStart) == {e \in zset : e.score > windowStart}

\* zrange(key, 0, 0, "WITHSCORES"): the lowest score, and the reset time
\* computed from it
ResetTime(zset, now, windowSec) ==
    IF zset # {}
    THEN (CHOOSE e \in zset : \A o \in zset : e.score <= o.score).score
            + windowSec
    ELSE now + windowSec

InitRate ==
    /\ pc = "idle"
    /\ timer = "unset"
    /\ aborted = FALSE
    /\ scanAborted = FALSE
    /\ db = [status |-> "waiting", progress |-> 0, error |-> NoError,
             stats |-> NoStats]
    /\ tempFile = FALSE
    /\ file = [locator |-> "path", lines |-> 0, size |-> 0]
    /\ retries = 0
    /\ attempts = << >>
    /\ scan = [lineCount |-> 0, batchSize |-> 0, reportedProgress |-> 20,
               folded |-> 0, ckProgress |-> 0, timeUp |-> FALSE]
    /\ exc = NoException
    /\ outcome = [kind |-> "none", error |-> NoException, stats |-> NoStats]
    /\ stalled = "idle"
    /\ budget = 0
    /\ log = << >>
    /\ keywords = DefaultKeywords
    /\ stats = NoStats
    /\ call = NoCall
    /\ \E limit \in 1..(MaxCalls - 1), windowSec \in {1} :
          execs = [j \in 1..MaxCalls |-> IdleCall(limit, windowSec)]
    /\ clock = 0
    /\ provider = NoProvider
    /\ redis = NoRedis

RateUnchanged ==
    UNCHANGED <<pc, timer, aborted, scanAborted, db, tempFile, file,
                retries, attempts, scan, exc, outcome, stalled, budget,
                log, keywords, stats, call, provider>>

\* time passes
RateTick ==
    /\ clock < MaxTicks
    /\ clock' = clock + 1
    /\ UNCHANGED <<execs, redis>>
    /\ RateUnchanged

\* safeRateLimit is called: now and windowStart are computed and
\* zremrangebyscore is sent
RateCall(j) ==
    /\ execs[j].pc = "idle"
    /\ j > 1 => execs[j - 1].pc # "idle"
    /\ execs' = [execs EXCEPT ![j].pc = "zremrangebyscore",
                              ![j].tick = clock,
                              ![j].now = NowSeconds(clock)]
    /\ UNCHANGED <<clock, redis>>
    /\ RateUnchanged

\* zremrangebyscore is served; zcard is sent
RateZrem(j) ==
    /\ execs[j].pc = "zremrangebyscore"
    /\ redis' = ZRemRangeByScore(redis, execs[j].now - execs[j].windowSec)
    /\ execs' = [execs EXCEPT ![j].pc = "zcard"]
    /\ UNCHANGED clock
    /\ RateUnchanged

\* zcard is served; zrange is sent
RateZcard(j) ==
    /\ execs[j].pc = "zcard"
    /\ execs' = [execs EXCEPT ![j].pc = "zrange",
                              ![j].requestCount = Cardinality(redis)]
    /\ UNCHANGED <<clock, redis>>
    /\ RateUnchanged

\* zrange is served: the call is refused when requestCount >= limit,
\* otherwise zadd is sent
RateZrange(j) ==
    /\ execs[j].pc = "zrange"
    /\ LET e == execs[j]
           reset == ResetTime(redis, e.now, e.windowSec)
       IN execs' =
             IF e.requestCount >= e.limit
             THEN [execs EXCEPT ![j].pc = "returned",
                                ![j].ret = [done |-> TRUE,
                                            success |-> FALSE,
                                            remaining |-> 0,
                                            reset |-> reset]]
             ELSE [execs EXCEPT ![j].pc = "zadd",
                                ![j].ret = [done |-> FALSE,
                                            reset |-> reset]]
    /\ UNCHANGED <<clock, redis>>
    /\ RateUnchanged

\* zadd(key, now, `${now}-${random}`) is served; expire is sent
RateZadd(j) ==
    /\ execs[j].pc = "zadd"
    /\ redis' = redis \cup {[score |-> execs[j].now,
                             member |-> <<execs[j].now, j>>]}
    /\ execs' = [execs EXCEPT ![j].pc = "expire"]
    /\ UNCHANGED clock
    /\ RateUnchanged

\* expire is served and the call returns success
RateExpire(j) ==
    /\ execs[j].pc = "expire"
    /\ LET e == execs[j]
       IN execs' = [execs EXCEPT ![j].pc = "returned",
                                 ![j].ret = [done |-> TRUE,
                                             success |-> TRUE,
                                             remaining |->
                                                e.limit - e.requestCount - 1,
                                             reset |-> e.ret.reset]]
    /\ UNCHANGED <<clock, redis>>
    /\ RateUnchanged

NextRate ==
    \/ RateTick
    \/ \E j \in DOMAIN execs : RateCall(j)
    \/ \E j \in DOMAIN execs : RateZrem(j)
    \/ \E j \in DOMAIN execs : RateZcard(j)
    \/ \E j \in DOMAIN execs : RateZrange(j)
    \/ \E j \in DOMAIN execs : RateZadd(j)
    \/ \E j \in DOMAIN execs : RateExpire(j)

SpecRate == InitRate /\ [][NextRate]_vars

(* ------------------------- reading the log ---------------------------- *)
IsWrite(e) == e.ev = "write"
IsPublish(e) == e.ev = "publish"
IsTimerFire(e) == e.ev = "timerFire"
IsLine(e) == e.ev = "line"
IsAttempt(e) == e.ev = "attempt"
IsWait(e) == e.ev = "wait"

\* the download attempts made so far and the backoff waits started so far
Attempts == SelectSeq(log, IsAttempt)
Waits == SelectSeq(log, IsWait)

\* the handler body's own Processing write with percentage p, applied
BodyWrite(e, p) ==
    IsWrite(e) /\ e.who = "handler" /\ e.progress = p /\ e.ok

\* the latest thing downloadFile did: an attempt or a wait
IsDownloadEvent(e) == IsAttempt(e) \/ IsWait(e)
LastDownloadEvent ==
    LET d == SelectSeq(log, IsDownloadEvent) IN d[Len(d)]

\* positions of the handler in its catch block and after it
CatchPcs == {"fail_db", "fail_pub", "thrown", "done"}

\* a durable write issued by the job handler itself (body, scanner,
\* updateJobStats, cleanupJob)
ByHandler(e) == e.who \in {"handler", "scan", "final", "cleanup"}

\* the handler and every callback have run to their end
Quiescent == pc = "done" /\ timer \in {"cleared", "done"} /\ stalled = "idle"

\* positions of the handler inside processLogFile
ScanPcs == {"scan", "ck_db", "ck_pub"}

(* ------------------------------ claims -------------------------------- *)

\* C1: once the persisted status is Completed or Failed, no later write of
\* the engine changes the job's status, progress or error.
TerminalStateImmutable ==
    [][db.status \in Terminal =>
          /\ db'.status = db.status
          /\ db'.progress = db.progress
          /\ db'.error = db.error]_vars

\* C2: if the safety timer fires before the job has reached a terminal
\* state, no Completed write or Completed notification is issued afterwards,
\* and (when no durable write was rejected) the job ends Failed, a Failed
\* write with the timeout message having been issued.
TimeoutEndsFailed ==
    \A i \in DOMAIN log :
        (/\ IsTimerFire(log[i])
         /\ \A h \in 1..(i - 1) :
               ~(IsWrite(log[h]) /\ log[h].ok /\ log[h].status \in Terminal))
        => /\ \A j \in (i + 1)..Len(log) :
                 ~((IsWrite(log[j]) \/ IsPublish(log[j]))
                   /\ log[j].status = "completed")
           /\ (Quiescent /\ \A j \in DOMAIN log : IsWrite(log[j]) => log[j].ok)
              => /\ db.status = "failed"
                 /\ \E j \in (i + 1)..Len(log) :
                       /\ IsWrite(log[j]) /\ log[j].status = "failed"
                       /\ log[j].error = TimeoutMsg

\* C3: when the timer sets the cancellation signal while processLogFile is
\* scanning, at most one further line is processed after the timer fired.
ScanStopsWithinOneLine ==
    \A i \in DOMAIN log :
        (IsTimerFire(log[i]) /\ log[i].at \in ScanPcs)
        => Cardinality({j \in (i + 1)..Len(log) : IsLine(log[j])}) <= 1

\* C4: every Completed record persisted by the handler carries the
\* statistics of a scan that consumed every line of the file.
CompletedHasFullStats ==
    \A i \in DOMAIN log :
        (IsWrite(log[i]) /\ log[i].status = "completed" /\ log[i].ok)
        => log[i].stats = file.lines

\* C5: if the timer fires while a retrieval attempt is in flight, then after
\* the download returns the handler issues no Processing write, runs no
\* scan and issues no Completed write, and the job stays Failed.
RetrievalDiscardedAfterTimeout ==
    \A i \in DOMAIN log : \A j \in DOMAIN log :
        (/\ IsTimerFire(log[i]) /\ log[i].at = "dl"
         /\ i < j /\ IsAttempt(log[j]) /\ log[j].ok)
        => /\ \A k \in (j + 1)..Len(log) :
                 /\ ~IsLine(log[k])
                 /\ ~(IsWrite(log[k]) /\ ByHandler(log[k])
                      /\ log[k].status \in {"processing", "completed"})
           /\ Quiescent => db.status = "failed"

\* C6: whenever the handler has returned or thrown, the scratch file its
\* retrieval step wrote has been deleted.
ScratchFileDeleted ==
    pc \in {"returned", "thrown", "done"} => ~tempFile

\* C7: the timer callback never runs after the handler has persisted
\* Completed (updateJobStats) or Failed (cleanupJob).
TimerDisarmedAtTerminal ==
    \A i \in DOMAIN log : \A j \in DOMAIN log :
        (/\ i < j
         /\ IsWrite(log[i]) /\ log[i].ok
         /\ log[i].who \in {"final", "cleanup"}
         /\ log[i].status \in Terminal)
        => ~IsTimerFire(log[j])

\* C8: the terminal notification of a job execution (published by the
\* handler, its timer or the completed/failed listeners) is the last
\* notification published for the job: none is published after it.
TerminalNotificationLast ==
    \A i \in DOMAIN log : \A j \in DOMAIN log :
        (/\ i < j
         /\ IsPublish(log[i]) /\ log[i].ok /\ log[i].status \in Terminal
         /\ log[i].who # "stalled")
        => ~(IsPublish(log[j]) /\ log[j].ok /\ log[j].who # "stalled")

\* C9: for an exception raised by retrieval or scanning the handler issues a
\* Failed write whose error is the exception's message and then rethrows
\* that same exception, also when the Failed write itself fails.
CatchWritesFailedAndRethrows ==
    (pc \in {"thrown", "done"} /\ exc.isError)
    => /\ outcome.kind = "thrown"
       /\ outcome.error = exc
       /\ \E i \in DOMAIN log :
             /\ IsWrite(log[i]) /\ log[i].who = "cleanup"
             /\ log[i].status = "failed"
             /\ log[i].error = exc.message

\* C9 witness: a scan error was caught, the Failed write failed, and the
\* handler has thrown
CatchWritesFailedAndRethrowsWitness ==
    /\ pc = "thrown"
    /\ exc = NewError(StreamErrorMsg)
    /\ \E i \in DOMAIN log :
          IsWrite(log[i]) /\ log[i].who = "cleanup" /\ ~log[i].ok

\* C10: a failed durable-store write of a non-terminal status does not take
\* the handler into its failure path: the handler continues.
NonTerminalWriteFailureTolerated ==
    (/\ Len(log) > 0
     /\ IsWrite(log[Len(log)])
     /\ log[Len(log)].status = "processing"
     /\ ~log[Len(log)].ok)
    => pc \notin {"fail_db", "fail_pub", "thrown"}

\* where the handler stands once the publish e, issued while it stood at
\* p, has been issued and has returned normally
PcAfterPublish(e, p) ==
    IF e.who = "handler" THEN (IF e.progress = 1 THEN "st1_pub" ELSE "st10_pub")
    ELSE IF e.who = "scan" THEN "ck_pub"
    ELSE IF e.who = "progress" THEN "scan"
    ELSE IF e.who = "final" THEN "final_pub"
    ELSE IF e.who = "cleanup" THEN "fail_pub"
    ELSE IF e.who \in {"onCompleted", "onFailed"} THEN "done"
    ELSE p

\* C11: a rejected publish never raises and never affects the job: the step
\* that issues it leaves the caught exception and the handler's outcome
\* alone, moves the handler to the position it reaches when the publish
\* succeeds, and the durable write that preceded it stays applied.
PublishFailureHarmless ==
    [][\A i \in (Len(log) + 1)..Len(log') :
          (IsPublish(log'[i]) /\ ~log'[i].ok)
          => /\ exc' = exc
             /\ outcome' = outcome
             /\ pc' = PcAfterPublish(log'[i], pc)
             /\ (i > Len(log) + 1 /\ IsWrite(log'[i - 1]))
                => /\ log'[i - 1].ok
                   /\ db'.status = log'[i].status
                   /\ db'.progress = log'[i].progress]_vars

\* C11 witness: the notification of the Completed write was rejected and
\* the handler has returned its statistics, the row being Completed
PublishFailureHarmlessWitness ==
    /\ pc = "done"
    /\ outcome.kind = "returned"
    /\ db.status = "completed"
    /\ \E i \in DOMAIN log :
          IsPublish(log[i]) /\ log[i].who = "final" /\ ~log[i].ok

\* C12: downloadFile makes at most 3 download attempts; when all 3 have
\* failed the handler has caught one error naming the cause of the third
\* (last) failed attempt, and no backoff wait follows the third failure.
DownloadGivesUpAfterThree ==
    /\ Len(Attempts) <= 3
    /\ \A k \in DOMAIN Attempts : Attempts[k].n = k
    /\ (Len(Attempts) = 3 /\ ~Attempts[3].ok)
       => /\ pc \in CatchPcs
          /\ Len(attempts) = 3
          /\ exc = NewError(<<"Failed to download file after 3 attempts">>
                            \o attempts[3])
          /\ Len(Waits) = 2
          /\ LastDownloadEvent = [ev |-> "attempt", n |-> 3, ok |-> FALSE]

\* C12 witness: three attempts failed with different causes (storage error
\* first, zero bytes last) and the handler has thrown the final error
DownloadGivesUpAfterThreeWitness ==
    /\ pc = "thrown"
    /\ attempts = <<StorageErrorMsg, StorageErrorMsg, EmptyDownloadMsg>>
    /\ outcome.error = NewError(DownloadFailedMsg(EmptyDownloadMsg))

\* C13: the wait after the k-th failed attempt is 1000 ms * 2^k and follows
\* that attempt at once; when the first two attempts fail and the third
\* succeeds there are exactly 2 waits, 2000 ms then 4000 ms, and downloadFile
\* returns with the scratch file written.
BackoffDoubles ==
    /\ \A k \in DOMAIN Waits : Waits[k].ms = 1000 * 2^k
    /\ \A i \in DOMAIN log :
          IsWait(log[i])
          => /\ i > 1 /\ IsAttempt(log[i - 1]) /\ ~log[i - 1].ok
             /\ log[i].ms = 1000 * 2^(log[i - 1].n)
    /\ (Len(Attempts) = 3 /\ Attempts[3].ok)
       => /\ ~Attempts[1].ok /\ ~Attempts[2].ok
          /\ Len(Waits) = 2
          /\ Waits[1].ms = 2000 /\ Waits[2].ms = 4000
          /\ pc = "sample" => tempFile

\* C13 witness: two failures, then the third attempt succeeded and
\* downloadFile has just returned
BackoffDoublesWitness ==
    /\ pc = "sample"
    /\ Len(Attempts) = 3
    /\ ~Attempts[1].ok /\ ~Attempts[2].ok /\ Attempts[3].ok
    /\ tempFile

\* C14: a zero-byte result is treated like any other failed attempt: it
\* consumes one of the 3 attempts, before the third failure it is followed by
\* the usual backoff wait with the call still running toward its next
\* attempt, and three zero-byte results exhaust the budget.
ZeroByteCountsAsFailure ==
    \A k \in DOMAIN attempts :
        attempts[k] = EmptyDownloadMsg
        => /\ retries = Len(attempts)
           /\ Len(Attempts) = Len(attempts)
           /\ k < 3 => /\ Len(Waits) >= k
                       /\ Waits[k].ms = 1000 * 2^k
           /\ (k = Len(attempts) /\ k < 3) => pc \in {"backoff", "dl"}
           /\ k = 3 => /\ pc \in CatchPcs
                       /\ Len(Waits) = 2
                       /\ exc = NewError(DownloadFailedMsg(EmptyDownloadMsg))

\* C14 witness: three zero-byte results in a row; the handler is in its
\* catch block with the download error
ZeroByteCountsAsFailureWitness ==
    /\ attempts = <<EmptyDownloadMsg, EmptyDownloadMsg, EmptyDownloadMsg>>
    /\ pc = "fail_db"
    /\ Len(Waits) = 2

\* C15 as stated: a zero-byte result is fatal with no retry, so no download
\* attempt is made after a zero-byte result.
ZeroByteIsFatal ==
    \A k \in DOMAIN attempts :
        attempts[k] = EmptyDownloadMsg => Len(Attempts) <= k

\* C15 amended: a zero-byte result is fatal only as the third failed
\* attempt; the handler catches the empty-file download error only after
\* three attempts, the last of them zero-byte, and an earlier zero-byte
\* result leaves the handler without exception in the retry loop.
ZeroByteFatalOnlyAtThird ==
    /\ exc.message = DownloadFailedMsg(EmptyDownloadMsg)
       => /\ Len(Attempts) = 3
          /\ Len(attempts) = 3
          /\ attempts[3] = EmptyDownloadMsg
    /\ (/\ Len(attempts) \in {1, 2}
        /\ attempts[Len(attempts)] = EmptyDownloadMsg)
       => /\ exc = NoException
          /\ pc \in {"backoff", "dl"}

\* C15 witness: the first result was zero-byte and a second attempt has
\* been made
ZeroByteFatalOnlyAtThirdWitness ==
    /\ Len(attempts) = 2
    /\ attempts[1] = EmptyDownloadMsg
    /\ Len(Attempts) = 2
    /\ pc = "backoff"

\* C16: with a locator that is empty, whitespace-only or not a string,
\* downloadFile raises its invalid-path error before any storage call: no
\* download attempt is made, no retry is consumed, no backoff wait starts.
InvalidLocatorRejectedFirst ==
    file.locator \in {"empty", "blank", "undefined", "number"}
    => /\ Len(Attempts) = 0
       /\ Len(Waits) = 0
       /\ retries = 0
       /\ ~tempFile
       /\ pc \in {"idle", "st1_db", "st1_pub"} \cup CatchPcs
       /\ (pc \in CatchPcs /\ exc.message # DbErrorMsg)
          => exc = NewError(InvalidPathMsg)

\* C16 witness: a whitespace-only locator; the handler has thrown the
\* invalid-path error
InvalidLocatorRejectedFirstWitness ==
    /\ file.locator = "blank"
    /\ pc = "thrown"
    /\ outcome.error = NewError(InvalidPathMsg)
    /\ Len(Attempts) = 0

\* a status write or notification issued by the handler's own code path:
\* its body, the scanner's checkpoints, updateJobStats and cleanupJob
FromHandler(e) ==
    /\ IsWrite(e) \/ IsPublish(e)
    /\ e.who \in {"handler", "scan", "progress", "final", "cleanup"}

\* the same, before the handler's failure path
FromHandlerNotFailed(e) == FromHandler(e) /\ e.status # "failed"

\* C17 as stated: the progress percentages of the handler's status writes
\* and notifications never decrease, from the first Processing write
\* through the terminal write.
ProgressNeverDecreases ==
    LET h == SelectSeq(log, FromHandler)
    IN \A k \in 1..(Len(h) - 1) : h[k].progress <= h[k + 1].progress

\* C17 amended: the progress percentages of the handler's Processing and
\* Completed writes and notifications never decrease; its terminal Failed
\* write and notification carry progress 0.
ProgressNeverDecreasesUntilFailed ==
    /\ LET h == SelectSeq(log, FromHandlerNotFailed)
       IN \A k \in 1..(Len(h) - 1) : h[k].progress <= h[k + 1].progress
    /\ \A i \in DOMAIN log :
          (FromHandler(log[i]) /\ log[i].status = "failed")
          => log[i].progress = 0 /\ log[i].who = "cleanup"

\* C17 witness: the handler wrote 1, 10, a checkpoint above 20 and
\* Completed 100
ProgressNeverDecreasesUntilFailedWitness ==
    /\ pc = "final_pub"
    /\ \E i \in DOMAIN log : \E j \in DOMAIN log :
          /\ i < j
          /\ BodyWrite(log[i], 10)
          /\ IsWrite(log[j]) /\ log[j].who = "scan" /\ log[j].progress = 21

\* C18: every checkpoint processLogFile emits reports a percentage p with
\* 20 <= p <= 99, and so does the row after the checkpoint's write, for
\* every file size and every number of lines read.
CheckpointWithinWindow ==
    /\ pc = "ck_db" => (20 <= scan.ckProgress /\ scan.ckProgress <= 99)
    /\ db.progress = 10 \/ (20 <= db.progress /\ db.progress <= 99)

\* C18 witness: more lines were read than estimated, the raw percentage is
\* above 99 and the checkpoint being written reports 99
CheckpointWithinWindowWitness ==
    /\ pc = "ck_db"
    /\ scan.lineCount > EstimatedTotalLines(file.size)
    /\ scan.reportedProgress > 99
    /\ scan.ckProgress = 99

\* C19: the handler issues its status writes in a fixed order: (Processing,
\* 1) is persisted and its notification issued before the first download
\* attempt starts; (Processing, 10) is written only after an attempt
\* succeeded and before any scan checkpoint; (Completed, 100) is written only
\* after (Processing, 10) and after the scan has returned, so that no line
\* and no checkpoint follows it.
StatusWritesInOrder ==
    /\ (pc \in {"dl", "backoff"} \/ Len(Attempts) > 0)
       => \E i \in DOMAIN log :
             /\ BodyWrite(log[i], 1)
             /\ i < Len(log)
             /\ IsPublish(log[i + 1]) /\ log[i + 1].progress = 1
             /\ \A j \in 1..(i + 1) : ~IsAttempt(log[j])
    /\ \A i \in DOMAIN log :
          (IsWrite(log[i]) /\ log[i].who = "handler" /\ log[i].progress = 10)
          => /\ \E j \in 1..(i - 1) : IsAttempt(log[j]) /\ log[j].ok
             /\ \A j \in 1..(i - 1) :
                   ~IsLine(log[j]) /\ ~(IsWrite(log[j]) /\ log[j].who = "scan")
    /\ \A i \in DOMAIN log :
          (IsWrite(log[i]) /\ log[i].who \in {"scan", "final"})
          => \E j \in 1..(i - 1) : BodyWrite(log[j], 10)
    /\ \A i \in DOMAIN log :
          (IsWrite(log[i]) /\ log[i].who = "final")
          => /\ log[i].status = "completed" /\ log[i].progress = 100
             /\ \A j \in (i + 1)..Len(log) :
                   /\ ~IsLine(log[j])
                   /\ ~IsAttempt(log[j])
                   /\ ~(IsWrite(log[j])
                        /\ log[j].who \in {"handler", "scan"})

\* C19 witness: the handler went through download, both setup writes, a
\* scan checkpoint and the Completed write, and has returned
StatusWritesInOrderWitness ==
    /\ pc = "returned"
    /\ db.status = "completed"
    /\ \E i \in DOMAIN log : IsWrite(log[i]) /\ log[i].who = "scan"
    /\ \E i \in DOMAIN log : BodyWrite(log[i], 1)

\* the set of configured keywords
Configured == {keywords[i] : i \in DOMAIN keywords}

\* C20: at every point of a scan errorCount <= totalEntries, and the keys of
\* keywordMatches are exactly the configured keywords: each is present with
\* value 0 before the first line and stays present with a count of at most
\* its occurrences in KEYWORDS per parsed line.
AccumulatorWellFormed ==
    /\ stats.errorCount <= stats.totalEntries
    /\ stats.totalEntries <= scan.lineCount
    /\ DOMAIN stats.keywordMatches = Configured
    /\ \A k \in Configured :
          /\ stats.keywordMatches[k] >= 0
          /\ stats.keywordMatches[k] <= Len(keywords) * stats.totalEntries
    /\ scan.lineCount = 0
       => \A k \in Configured : stats.keywordMatches[k] = 0

\* C20 witness: two records folded, one of level error, one keyword matched
\* and another still at 0
AccumulatorWellFormedWitness ==
    /\ stats.totalEntries = 2
    /\ stats.errorCount = 1
    /\ \E k \in Configured : stats.keywordMatches[k] = 0
    /\ \E k \in Configured : stats.keywordMatches[k] > 0

\* the scan has read exactly the scenario line, under the keywords
\* ["error", "timeout"]
ScenarioScanned ==
    /\ keywords = <<"error", "timeout">>
    /\ scan.lineCount = 1
    /\ call.fn = "parseLine"
    /\ call.arg = ScenarioLine

\* C21 as stated: scanning a file whose only line is
\* "[t] ERROR something timeout happened" with keywords ["error", "timeout"]
\* yields errorCount = 1 and keywordMatches = {error: 1, timeout: 1}.
ScenarioCountsLevelAsKeyword ==
    ScenarioScanned
    => /\ stats.errorCount = 1
       /\ stats.keywordMatches = [k \in {"error", "timeout"} |-> 1]

\* C21: scanning a file whose only line is
\* "[t] ERROR something timeout happened" with keywords ["error", "timeout"]
\* yields errorCount = 1 and keywordMatches = {error: 0, timeout: 1}: the
\* keywords are looked for in the message, which does not hold the level.
ScenarioCountsMessageOnly ==
    ScenarioScanned
    => /\ stats.totalEntries = 1
       /\ stats.errorCount = 1
       /\ stats.keywordMatches =
             [k \in {"error", "timeout"} |-> IF k = "timeout" THEN 1 ELSE 0]

\* C21 witness: the scenario line has been folded under the two keywords
ScenarioCountsMessageOnlyWitness ==
    /\ ScenarioScanned
    /\ stats.totalEntries = 1
    /\ stats.keywordMatches["timeout"] = 1

\* a decimal integer in 0..255
DecimalOctet(seg) ==
    /\ seg # << >>
    /\ \A i \in DOMAIN seg : seg[i] \in Digits
    /\ LeadingDigits(seg, 1, 0) <= 255

\* four dot-separated decimal integers, each in 0..255
ValidQuad(x) == Len(x) = 4 /\ \A i \in DOMAIN x : DecimalOctet(x[i])

\* the strings that stand in the lines
Addresses == {IpX, IpOutOfRange, IpLeadingDigit}

\* how often x is a string value of the payload, at any depth
RECURSIVE PayloadOccurrences(_, _)
PayloadOccurrences(entries, x) ==
    IF entries = << >> THEN 0
    ELSE LET value == Head(entries)
         IN (IF value.type = "string" THEN (IF value.segs = x THEN 1 ELSE 0)
             ELSE IF value.type = "object"
             THEN PayloadOccurrences(value.entries, x)
             ELSE 0) + PayloadOccurrences(Tail(entries), x)

\* how often x stands in the message text
RECURSIVE TextOccurrences(_, _)
TextOccurrences(message, x) ==
    IF message = << >> THEN 0
    ELSE LET token == Head(message)
         IN (IF token.kind = "dotted" THEN (IF token.segs = x THEN 1 ELSE 0)
             ELSE IF token.kind = "json"
             THEN PayloadOccurrences(token.entries, x)
             ELSE 0) + TextOccurrences(Tail(message), x)

IpCount(st, x) ==
    IF x \in DOMAIN st.ipAddresses THEN st.ipAddresses[x] ELSE 0

\* C22: folding a parsed record in which a valid IPv4 x occurs once as a
\* string value of the payload and once in the message text increases
\* ipAddresses[x] by exactly 2; when x occurs in only one of the two places,
\* by exactly 1.
AddressCountedPerPlace ==
    [][(scan'.lineCount = scan.lineCount + 1 /\ call'.ret.matched)
       => \A x \in {a \in Addresses : ValidQuad(a)} :
             LET parsed == call'.ret
                 inPayload == IF parsed.jsonPayload.isNull THEN 0
                              ELSE PayloadOccurrences(
                                       parsed.jsonPayload.entries, x)
                 inText == TextOccurrences(parsed.message, x)
                 added == IpCount(stats', x) - IpCount(stats, x)
             IN /\ (inPayload = 1 /\ inText = 1) => added = 2
                /\ (inPayload + inText = 1) => added = 1]_vars

\* C22 witness: a line with the address in both places has been folded
\* after a line with the address in the text only
AddressCountedPerPlaceWitness ==
    /\ scan.lineCount = 2
    /\ call.fn = "parseLine"
    /\ call.ret.matched
    /\ ~call.ret.jsonPayload.isNull
    /\ PayloadOccurrences(call.ret.jsonPayload.entries, IpX) = 1
    /\ TextOccurrences(call.ret.message, IpX) = 1
    /\ IpCount(stats, IpX) = 3

\* C23: isIPAddress returns true for every string of four dot-separated
\* decimal integers each in 0..255, and false for every string with a
\* segment count other than four or with a segment that is not numeric
\* (empty, or only starting with digits) or outside 0..255.
IsIPAddressExact ==
    (call.fn = "isIPAddress" /\ call.done)
    => (call.ret <=> ValidQuad(call.arg))

\* a terminal status write of the handler body (updateJobStats), of
\* cleanupJob or of the safety-timer callback
IsEngineTerminalWrite(e) ==
    IsWrite(e) /\ e.status \in Terminal /\ e.who \in {"final", "cleanup", "timer"}

\* C24: each job handler execution issues exactly one terminal status write
\* (Completed or Failed), counting the writes of the handler body, of
\* cleanupJob and of the safety-timer callback, and that write has been
\* issued when the handler returns or throws.
ExactlyOneTerminalWrite ==
    pc \in {"returned", "thrown", "done"}
    => Len(SelectSeq(log, IsEngineTerminalWrite)) = 1

\* C25: no two job handler executions that run at the same time in one
\* process ever write to the same scratch file path.
ScratchPathsDisjoint ==
    \A i, j \in DOMAIN execs :
        i # j => execs[i].written \cap execs[j].written = {}

\* C25 witness: two executions of jobs with the same file name have written
\* their scratch files in the same millisecond, and one of them twice
ScratchPathsDisjointWitness ==
    \E i, j \in DOMAIN execs :
        /\ i # j
        /\ execs[i].job.input.base = execs[j].job.input.base
        /\ \E p \in execs[i].written, q \in execs[j].written :
              p # q /\ p[5] = q[5]
        /\ Cardinality(execs[i].written) = 2

\* the accumulator of a scan that runs alone over the first n lines
RECURSIVE FoldPrefix(_, _, _)
FoldPrefix(lines, n, kws) ==
    IF n = 0 THEN NewStats(kws)
    ELSE LET before == FoldPrefix(lines, n - 1, kws)
             parsed == ParseLine(lines[n])
         IN IF parsed.matched THEN Fold(before, parsed, kws) ELSE before

\* C26: when several job handlers run at the same time and interleave at
\* their suspension points, the accumulator of each scan holds at every
\* point what a scan alone holds after the same lines, and the statistics a
\* job returns equal those it produces alone on the same file: no step of
\* another job or of the notifier changes them.
AccumulatorsIsolated ==
    \A j \in DOMAIN execs :
        /\ execs[j].pc = "scan"
           => stats[j] = FoldPrefix(execs[j].job.input.lines,
                                    execs[j].lineCount, keywords)
        /\ execs[j].returned
           => execs[j].result =
                 FoldPrefix(execs[j].job.input.lines,
                            Len(execs[j].job.input.lines), keywords)

\* C26 witness: both scans are under way at once, each after its first
\* line, with different counts in their accumulators
AccumulatorsIsolatedWitness ==
    \E i, j \in DOMAIN execs :
        /\ execs[i].pc = "scan" /\ execs[i].lineCount = 1
        /\ execs[j].pc = "scan" /\ execs[j].lineCount = 1
        /\ execs[i].notified
        /\ stats[i].totalEntries = 1
        /\ stats[j].totalEntries = 1
        /\ stats[i] # stats[j]

ScenarioScanReturned == pc = "final_db" /\ file.lines = FastLines

\* C28 as stated: for a 10,000-line file scanned with batch size 1000 and no
\* time-triggered checkpoints, the last checkpoint emitted before the
\* Completed write reports a percentage >= 99, whatever the byte size of
\* the file.
LastCheckpointNearFull == ScenarioScanReturned => scan.ckProgress >= 99

\* C28: for a 10,000-line file scanned with batch size 1000 and no
\* time-triggered checkpoints, the last checkpoint emitted before the
\* Completed write reports a percentage >= 99 when the line estimate
\* max(100, floor(size / 200)) is at most 10,126.
LastCheckpointNearFullForShortLines ==
    (ScenarioScanReturned
     /\ EstimatedTotalLines(file.size) <= EdgeEstimate(file.lines))
    => scan.ckProgress >= 99

\* C28 witness: the scan of a file at the edge has returned, its last
\* checkpoint at the last batch boundary on a computed 99
LastCheckpointNearFullForShortLinesWitness ==
    /\ ScenarioScanReturned
    /\ EstimatedTotalLines(file.size) = EdgeEstimate(file.lines)
    /\ scan.reportedProgress = 99
    /\ scan.ckProgress = 99
    /\ db.progress = 99

IsFailedWrite(e) == IsWrite(e) /\ e.status = "failed"

\* the message the condition behind a Failed write gives
TriggerMessage(who) ==
    IF who = "timer" THEN TimeoutMsg
    ELSE IF who = "stalled" THEN StalledMsg
    ELSE IF exc.isError THEN exc.message ELSE ObjectString

IsEngineTransition(e) ==
    /\ IsWrite(e)
    /\ e.ok
    /\ e.who \in {"handler", "scan", "final", "cleanup", "timer"}

IsCompletedPublish(e) ==
    IsPublish(e) /\ e.status = "completed" /\ e.progress = 100

TotalEntriesCountsParsedLines ==
    /\ [](stats.totalEntries = scan.folded)
    /\ [][scan'.lineCount = scan.lineCount + 1
          => /\ call'.fn = "parseLine"
             /\ IF EnvelopeAt(call'.arg, 1) = 0
                THEN /\ stats' = stats
                     /\ scan'.folded = scan.folded
                ELSE /\ stats'.totalEntries = stats.totalEntries + 1
                     /\ scan'.folded = scan.folded + 1]_vars

\* C31 witness: three lines read, one of them outside the grammar, two
\* entries counted
TotalEntriesCountsParsedLinesWitness ==
    /\ scan.lineCount = 3
    /\ scan.folded = 2
    /\ stats.totalEntries = 2
    /\ call.fn = "parseLine"
    /\ ~call.ret.matched

\* C32: for every line of the form "[T] LEVEL message {json}", parseLine
\* returns a record with timestamp = T, level = LEVEL, message equal to the
\* text between the level and the trailing json, and payload equal to the
\* parsed json, or a null payload when the json is malformed; also when the
\* message text itself contains a "{".
ParseLineSplitsAtTrailingJson ==
    (call.fn = "parseLine" /\ call.done)
    => LET line == call.arg
           last == line[Len(line)]
       IN /\ call.ret.matched
          /\ call.ret.timestamp = line[1].text
          /\ call.ret.level = line[2].text
          /\ call.ret.message = SubSeq(line, 3, Len(line) - 1)
          /\ call.ret.jsonPayload =
                IF last.ok THEN [isNull |-> FALSE, entries |-> last.entries]
                ELSE [isNull |-> TRUE, entries |-> << >>]

\* a status write of the handler, of cleanupJob or of the safety-timer
\* callback that the store accepted
IsEnginePersisted(e) == IsWrite(e) /\ e.ok /\ e.who # "stalled"

\* C33: the job handler's outcome agrees with the last status the engine
\* persisted for that execution: the handler returns a success result only
\* if the last persisted status is Completed, and throws only if the last
\* persisted status is Failed.
OutcomeAgreesWithPersisted ==
    Quiescent
    => LET persisted == SelectSeq(log, IsEnginePersisted)
           last == persisted[Len(persisted)]
       IN /\ outcome.kind = "returned"
             => Len(persisted) > 0 /\ last.status = "completed"
          /\ outcome.kind = "thrown"
             => Len(persisted) > 0 /\ last.status = "failed"

\* C34: a job record whose persisted status is Completed never carries an
\* error string: after any sequence of engine writes for a job (including a
\* Failed write by timeout or stall followed by a Completed write), status
\* Completed implies that the error field is empty.
CompletedCarriesNoError ==
    db.status = "completed" => db.error = NoError

\* C35: in WebSocketProvider at most one polling interval is active at any
\* time, no polling interval is active while the WebSocket is open, and every
\* polling interval that was started is cleared when the provider unmounts,
\* for any sequence of open, close and error events.
PollingIntervalDisciplined ==
    /\ Cardinality(provider.intervals) <= 1
    /\ provider.ws = "open" => provider.intervals = {}
    /\ provider.phase = "unmounted" => provider.intervals = {}

\* the calls of safeRateLimit that returned success and were made in the
\* windowSec seconds that begin at tick t
AdmittedFrom(t) ==
    {j \in DOMAIN execs :
        /\ execs[j].ret.done
        /\ execs[j].ret.success
        /\ t <= execs[j].tick
        /\ execs[j].tick < t + execs[j].windowSec * TicksPerSec}

\* C36: safeRateLimit admits at most `limit` requests per identifier within
\* any window of windowSec seconds, also when several calls for the same
\* identifier interleave between the count read (zcard) and the insert
\* (zadd).
AdmitsAtMostLimit ==
    \A t \in 0..MaxTicks : Cardinality(AdmittedFrom(t)) <= execs[1].limit

====
